---- MODULE Spec2Model ----
(***************************************************************************)
(* A model of pade/stat.py: the layout helpers, the statistic evaluators   *)
(* (Ftest, OneSampleTTest, OneSampleDifferenceTTest, MeansRatio), the      *)
(* counting and enumeration of distinguishable orderings, the              *)
(* random_orderings generator, cumulative_hist and bootstrap.              *)
(*                                                                         *)
(* Conventions.  A Python list or tuple is a TLA+ sequence; Python index i *)
(* is position i + 1.  A layout is a sequence of groups, a group a         *)
(* sequence of sample indices (naturals).  A call's outcome is a record    *)
(* [exc, val]: exc = "none" and the returned value, or the name of the     *)
(* exception raised.  A generator's outcome is a record [exc, out]: the    *)
(* list of the values it yields and the exception that ends it, if any.    *)
(***************************************************************************)
EXTENDS Integers, Sequences, FiniteSets, TLC

VARIABLES
    fn,         \* the function a pure-function specification calls
    pc,         \* control point: "call"/"done", or the generator's position
    ret,        \* outcome of the call: [exc, val] or [exc, out]
    full,       \* argument full (a layout)
    reduced,    \* argument reduced (a layout, or None)
    items,      \* argument items of all_orderings_within_group
    sizes,      \* argument sizes of all_orderings_within_group
    R,          \* argument R of random_orderings
    N,          \* random_orderings' local N
    orderings,  \* random_orderings' local set of keys already yielded
    yielded,    \* the values the random_orderings iterator has yielded so far
    drawn,      \* whether random_ordering has been called by the iterator
    data,       \* argument data (a tensor)
    layout,     \* argument layout
    dtype,      \* element type of data: "int" or "float"
    alphas,     \* argument alphas: [given, vals], given = FALSE for None
    self,       \* the evaluator object a constructor has built
    prev,       \* outcome of the evaluator's previous call
    symmetric,  \* argument symmetric of MeansRatio
    condition_layout,   \* argument condition_layout of MeansRatio
    block_layout,       \* argument block_layout of MeansRatio
    values,     \* argument values of cumulative_hist
    bins,       \* argument bins: a tensor of bin edges, or NoBins for None
    stat_fn,    \* argument stat_fn of bootstrap: the name of a statistic
    sample_layout,  \* argument sample_layout of bootstrap (a layout, or None)
    indexes,    \* bootstrap's indexes: the list of index rows, or None
    resid,      \* argument residuals of bootstrap: a tensor, or NoResiduals
    accum,      \* bootstrap's accumulated value (the state of reduce)
    consumed,   \* the number of index rows reduce has consumed
    sample,     \* the sample built last for a draw of bootstrap, or NoSample
    num_bins,   \* argument num_bins of bins_uniform and bins_custom
    stats       \* argument stats of bins_uniform and bins_custom (a tensor)

\* the variables of the evaluator objects
evalVars == <<self, prev, symmetric, condition_layout, block_layout>>

\* the variables of cumulative_hist and bootstrap
bootVars == <<values, bins, stat_fn, sample_layout, indexes, resid, accum, consumed,
              sample, num_bins, stats>>

vars == <<fn, pc, ret, full, reduced, items, sizes, R, N, orderings, yielded,
          drawn, data, layout, dtype, alphas, evalVars, bootVars>>

-----------------------------------------------------------------------------
(* Bounds of the model *)

\* largest number of sample indices in the layouts given to the counting and
\* enumeration functions
MaxItems == 4

\* largest number of sample indices in the layouts given to random_orderings
MaxIdx == 3

\* largest requested number of orderings
MaxR == 2

\* largest length of the sample axis of a data tensor
MaxSamples == 3

\* largest number of values given to cumulative_hist
MaxValues == 3

\* largest number of bins
MaxBins == 2

-----------------------------------------------------------------------------
(* Generic helpers *)

RECURSIVE SumSeq(_)
SumSeq(s) == IF s = <<>> THEN 0 ELSE Head(s) + SumSeq(Tail(s))

RECURSIVE Concat(_)
Concat(ss) == IF ss = <<>> THEN <<>> ELSE Head(ss) \o Concat(Tail(ss))

Range(s) == {s[i] : i \in 1..Len(s)}

RECURSIVE Fact(_)
Fact(n) == IF n <= 0 THEN 1 ELSE n * Fact(n - 1)

MapLen(lay) == [i \in 1..Len(lay) |-> Len(lay[i])]

\* Python slice s[a:b] (0-based, b exclusive, clipped to the list)
Slice(s, a, b) ==
    LET hi == IF b > Len(s) THEN Len(s) ELSE b
    IN  IF a >= hi THEN <<>> ELSE SubSeq(s, a + 1, hi)

Min(S) == CHOOSE x \in S : \A y \in S : x <= y

\* F(v) with v evaluated in full, once, before F is applied to it: a value
\* the code computes once and then reads many times
Strict(F(_), v) == CHOOSE r \in {F(x) : x \in {y \in {v} : y = y}} : r = r

Reverse(seq) == [i \in 1..Len(seq) |-> seq[Len(seq) + 1 - i]]

\* Iteration order of a Python set of small non-negative integers: ascending.
RECURSIVE SetToSeq(_)
SetToSeq(S) == IF S = {} THEN <<>> ELSE <<Min(S)>> \o SetToSeq(S \ {Min(S)})

Returned(v) == [exc |-> "none", val |-> v]
Raised(e) == [exc |-> e, val |-> 0]
Yields(o, e) == [exc |-> e, out |-> o]

\* alphas=None
NoAlphas == [given |-> FALSE, vals |-> <<>>]

\* bins=None
NoBins == [ndim |-> 0, rows |-> <<>>]

\* residuals=None
NoResiduals == [ndim |-> 0, rows |-> <<>>]

\* no sample has been built yet
NoSample == [ndim |-> 0, rows |-> <<>>]

\* The absent reduced layout (reduced=None): a layout-shaped sentinel that no
\* real layout equals, since real indices are never negative.
None == << <<-1>> >>

-----------------------------------------------------------------------------
(* Tensors and layout helpers: apply_layout, group_means, residuals,        *)
(* group_rss                                                               *)
(*                                                                         *)
(* A tensor is [ndim, rows]: a 2-d array is the sequence of its rows, a    *)
(* 1-d array has its values in rows[1], a 0-d result its value in          *)
(* rows[1][1].  Input elements are integers (held as int or as float       *)
(* according to dtype); computed elements are fractions <<n, d>>, d > 0,   *)
(* and <<0, 0>> is nan.                                                    *)

\* np.shape
Shape(t) ==
    IF t.ndim = 0 THEN <<>>
    ELSE IF t.ndim = 1 THEN <<Len(t.rows[1])>>
    ELSE <<Len(t.rows), Len(t.rows[1])>>

\* length of the last (sample) axis
LastAxis(t) == Len(t.rows[1])

Front(s) == SubSeq(s, 1, Len(s) - 1)

RECURSIVE GCD(_, _)
GCD(a, b) == IF b = 0 THEN a ELSE GCD(b, a % b)

Abs(x) == IF x < 0 THEN -x ELSE x

\* a fraction in lowest terms
RNorm(q) ==
    IF q[2] = 0 THEN q
    ELSE LET g == GCD(Abs(q[1]), q[2])
         IN  IF g = 0 THEN <<0, 1>> ELSE <<q[1] \div g, q[2] \div g>>

RAdd(a, b) == RNorm(<<a[1] * b[2] + b[1] * a[2], a[2] * b[2]>>)
RSub(a, b) == RNorm(<<a[1] * b[2] - b[1] * a[2], a[2] * b[2]>>)
RMul(a, b) == RNorm(<<a[1] * b[1], a[2] * b[2]>>)
RInt(x) == <<x, 1>>

\* conversion of a float to int on assignment into an int array: truncation
Trunc(q) ==
    IF q[1] >= 0 THEN <<q[1] \div q[2], 1>> ELSE <<-((-q[1]) \div q[2]), 1>>

RECURSIVE RSum(_)
RSum(qs) == IF qs = <<>> THEN <<0, 1>> ELSE RAdd(Head(qs), RSum(Tail(qs)))

\* row[idxs] with the index list sorted first
Take_sorted(row, idxs) ==
    LET srt == SetToSeq(Range(idxs))
    IN  [k \in 1..Len(srt) |-> row[srt[k] + 1]]

\* row[idxs] for a list of indices (fancy indexing along the last axis)
Take(row, idxs) == [k \in 1..Len(idxs) |-> row[idxs[k] + 1]]

\* data[..., idxs]; IndexError when an index is out of bounds for the axis
Index(t, idxs) ==
    IF \E k \in 1..Len(idxs) : idxs[k] >= LastAxis(t)
        THEN Raised("IndexError")
        ELSE Returned([ndim |-> t.ndim,
                       rows |-> [r \in 1..Len(t.rows) |-> Take(t.rows[r], idxs)]])

\* apply_layout(data, layout): the list of the groups' tensors
apply_layout(t, lay) ==
    Strict(LAMBDA parts :
             LET bad == {i \in 1..Len(lay) : parts[i].exc # "none"}
             IN  IF bad # {} THEN Raised(parts[Min(bad)].exc)
                 ELSE Returned([i \in 1..Len(lay) |-> parts[i].val]),
           [i \in 1..Len(lay) |-> Index(t, lay[i])])

\* np.mean(group, axis=-1) of one row of a group
Mean(vals) == <<SumSeq(vals), Len(vals)>>

\* group_means with the result shaped like data
group_means_shaped_like_data(t, lay) ==
    Strict(LAMBDA groups :
             IF groups.exc # "none" THEN groups
             ELSE Returned([ndim |-> t.ndim,
                            rows |-> [r \in 1..Len(t.rows) |->
                               [i \in 1..LastAxis(t) |->
                                  IF i <= Len(lay)
                                     THEN Mean(groups.val[i].rows[r])
                                     ELSE <<0, 1>>]]]),
           apply_layout(t, lay))

\* group_means(data, layout)
group_means(t, lay) ==
    Strict(LAMBDA groups :
             LET shape == Front(Shape(t)) \o <<Len(lay)>>
             IN  IF groups.exc # "none" THEN groups
                 ELSE Returned([ndim |-> Len(shape),
                                rows |-> [r \in 1..Len(t.rows) |->
                                   [i \in 1..shape[Len(shape)] |->
                                      Mean(groups.val[i].rows[r])]]]),
           apply_layout(t, lay))

\* row[idxs] = vals, one index after the other
RECURSIVE Put(_, _, _, _)
Put(row, idxs, vals, k) ==
    IF k > Len(idxs) THEN row
    ELSE Put([row EXCEPT ![idxs[k] + 1] = vals[k]], idxs, vals, k + 1)

\* The loop of residuals (lines 121-124) from group i on
RECURSIVE ResidualsLoop(_, _, _, _, _, _)
ResidualsLoop(t, ty, lay, means, i, diffs) ==
    IF i > Len(lay) THEN diffs
    ELSE Strict(LAMBDA next : ResidualsLoop(t, ty, lay, means, i + 1, next),
            [r \in 1..Len(t.rows) |->
                LET these_data == Take(t.rows[r], lay[i])
                    these_means == means.rows[r][i]
                    vals == [k \in 1..Len(these_data) |->
                               LET d == RSub(RInt(these_data[k]), these_means)
                               IN  IF ty = "int" THEN Trunc(d) ELSE d]
                IN  Put(diffs[r], lay[i], vals, 1)])

\* residuals(data, layout)
residuals(t, ty, lay) ==
    Strict(LAMBDA means :
             IF means.exc # "none" THEN means
             ELSE Returned([ndim |-> t.ndim,
                            rows |-> ResidualsLoop(t, ty, lay, means.val, 1,
                                       [r \in 1..Len(t.rows) |->
                                           [c \in 1..LastAxis(t) |-> <<0, 1>>]])]),
           group_means(t, lay))

\* group_rss(data, layout): np.sum(r ** 2, axis=-1)
group_rss(t, ty, lay) ==
    Strict(LAMBDA r :
             IF r.exc # "none" THEN r
             ELSE LET sums == [i \in 1..Len(r.val.rows) |->
                                 RSum([c \in 1..Len(r.val.rows[i]) |->
                                         RMul(r.val.rows[i][c], r.val.rows[i][c])])]
                  IN  Returned([ndim |-> t.ndim - 1,
                                rows |-> IF t.ndim = 1 THEN << <<sums[1]>> >>
                                         ELSE <<sums>>]),
           residuals(t, ty, lay))

-----------------------------------------------------------------------------
(* The F-test evaluator: construction *)

\* Ftest.__init__ raising when some group is larger than one
Ftest_init_any(layout_full, layout_reduced, alphs) ==
    LET pair_lens == MapLen(layout_full)
    IN  IF \E i \in 1..Len(pair_lens) : pair_lens[i] > 1
           THEN Raised("UnsupportedLayoutException")
           ELSE Returned([layout_full |-> layout_full,
                          layout_reduced |-> layout_reduced,
                          alphas |-> alphs])

\* Ftest.__init__(layout_full, layout_reduced, alphas)
Ftest_init(layout_full, layout_reduced, alphs) ==
    LET pair_lens == MapLen(layout_full)
    IN  IF ~(\A i \in 1..Len(pair_lens) : pair_lens[i] > 1)
           THEN Raised("UnsupportedLayoutException")
           ELSE Returned([layout_full |-> layout_full,
                          layout_reduced |-> layout_reduced,
                          alphas |-> alphs])

-----------------------------------------------------------------------------
(* The F-test evaluator: the call                                          *)
(*                                                                         *)
(* A float is a fraction <<n, d>>; d = 0 gives the values of IEEE          *)
(* arithmetic that are no numbers: <<1, 0>> is inf, <<-1, 0>> is -inf and  *)
(* <<0, 0>> is nan.  The tuning parameters alphas are floats.              *)

Sign(x) == IF x > 0 THEN 1 ELSE IF x < 0 THEN -1 ELSE 0

IsNan(q) == q[1] = 0 /\ q[2] = 0

\* a / b on floats: a zero divisor gives inf or nan, never an exception
RDiv(a, b) ==
    IF IsNan(a) \/ IsNan(b) THEN <<0, 0>>
    ELSE IF b[2] = 0 THEN (IF a[2] = 0 THEN <<0, 0>> ELSE <<0, 1>>)
    ELSE IF b[1] = 0 THEN <<Sign(a[1]), 0>>
    ELSE IF a[2] = 0 THEN <<Sign(a[1]) * Sign(b[1]), 0>>
    ELSE RNorm(<<a[1] * b[2] * Sign(b[1]), a[2] * Abs(b[1])>>)

\* a / b on integers (the module has no true division): the floor of the
\* quotient, and numpy's 0 for a zero divisor
FloorDiv(a, b) ==
    IF b = 0 THEN 0
    ELSE LET q == Abs(a) \div Abs(b)
         IN  IF Sign(a) * Sign(b) >= 0 THEN q
             ELSE IF q * Abs(b) = Abs(a) THEN -q ELSE -q - 1

\* a / b for operands of type ty
Div(ty, a, b) ==
    IF ty = "int" THEN <<FloorDiv(a[1], b[1]), 1>> ELSE RDiv(a, b)

\* Ftest.__call__(data) of the evaluator ev, data of element type ty
Ftest_call(ev, t, ty) ==
    LET p_red == Len(ev.layout_reduced)
        p_full == Len(ev.layout_full)
        n == SumSeq(MapLen(ev.layout_reduced))
        F(rss_full, rss_red) ==
            LET M == Len(rss_full.val.rows[1])
                numer == [r \in 1..M |->
                            Div(ty, RSub(rss_red.val.rows[1][r],
                                         rss_full.val.rows[1][r]),
                                RInt(p_full - p_red))]
                denom == [r \in 1..M |->
                            Div(ty, rss_full.val.rows[1][r], RInt(n - p_full))]
                vals == ev.alphas.vals
            IN  IF ev.alphas.given
                   THEN LET withAlpha(a) ==
                                [r \in 1..M |->
                                   RDiv(numer[r], RAdd(denom[r], RInt(vals[a])))]
                        IN  Returned([ndim |-> t.ndim,
                                      rows |-> IF t.ndim = 1
                                         THEN <<[a \in 1..Len(vals) |->
                                                   withAlpha(a)[1]]>>
                                         ELSE [a \in 1..Len(vals) |->
                                                   withAlpha(a)]])
                   ELSE Returned([ndim |-> t.ndim - 1,
                                  rows |-> <<[r \in 1..M |->
                                               Div(ty, numer[r], denom[r])]>>])
    IN  Strict(LAMBDA rss :
                 IF rss[1].exc # "none" THEN rss[1]
                 ELSE IF rss[2].exc # "none" THEN rss[2]
                 ELSE F(rss[1], rss[2]),
               <<group_rss(t, ty, ev.layout_full),
                 group_rss(t, ty, ev.layout_reduced)>>)

\* The data of the docstring of Ftest: the rows a, b and c
DocData == [ndim |-> 2, rows |-> << <<1, 2, 3, 6>>, <<2, 1, 1, 1>>, <<3, 1, 10, 4>> >>]

\* ... and its layouts
DocFull == << <<0, 1>>, <<2, 3>> >>
DocReduced == << <<0, 1, 2, 3>> >>

-----------------------------------------------------------------------------
(* The one-sample t-tests                                                  *)
(*                                                                         *)
(* A t statistic is not a fraction: the value |numer| / (sqrt(root) + plus) *)
(* is held as the record [numer, root, plus] of its three fractions.       *)

\* layout_is_paired(layout)
layout_is_paired(lay) == \A g \in 1..Len(lay) : Len(lay[g]) = 2

\* OneSampleTTest(alphas)
OneSampleTTest_init(alphs) == Returned([alphas |-> alphs])

RAbs(q) == <<Abs(q[1]), q[2]>>

\* np.abs(x / (s / np.sqrt(n) + alpha)) for one row of data
TStatistic(vals, alpha) ==
    LET n == Len(vals)
        x == RDiv(RInt(SumSeq(vals)), RInt(n))
        sq == [k \in 1..n |-> LET d == RSub(RInt(vals[k]), x) IN RMul(d, d)]
        var == RDiv(RSum(sq), RInt(n))
    IN  [numer |-> RAbs(x), root |-> RDiv(var, RInt(n)), plus |-> alpha]

\* OneSampleTTest.__call__(data)
OneSampleTTest_call(ev, t) ==
    LET M == Len(t.rows)
        vals == ev.alphas.vals
    IN  IF ev.alphas.given
           THEN Returned([ndim |-> t.ndim,
                          rows |-> IF t.ndim = 1
                             THEN <<[a \in 1..Len(vals) |->
                                       TStatistic(t.rows[1], RInt(vals[a]))]>>
                             ELSE [a \in 1..Len(vals) |->
                                     [r \in 1..M |->
                                        TStatistic(t.rows[r], RInt(vals[a]))]]])
           ELSE Returned([ndim |-> t.ndim - 1,
                          rows |-> <<[r \in 1..M |->
                                       TStatistic(t.rows[r], <<0, 1>>)]>>])

\* OneSampleDifferenceTTest(layout_reduced, alphas)
OneSampleDifferenceTTest_init(layout_reduced, alphs) ==
    IF ~layout_is_paired(layout_reduced)
       THEN Raised("Exception")
       ELSE Returned([alphas |-> alphs,
                      name |-> "OneSampleDifferenceTTest",
                      layout_reduced |-> layout_reduced,
                      child |-> OneSampleTTest_init(alphs).val])

\* OneSampleDifferenceTTest.__call__(data)
OneSampleDifferenceTTest_call(ev, t) ==
    LET pairs == ev.layout_reduced
        idxs_a == [p \in 1..Len(pairs) |-> pairs[p][1]]
        idxs_b == [p \in 1..Len(pairs) |-> pairs[p][2]]
        a == Index(t, idxs_a)
        b == Index(t, idxs_b)
    IN  IF a.exc # "none" THEN a
        ELSE IF b.exc # "none" THEN b
        ELSE OneSampleTTest_call(ev.child,
                [ndim |-> t.ndim,
                 rows |-> [r \in 1..Len(t.rows) |->
                             [p \in 1..Len(pairs) |->
                                a.val.rows[r][p] - b.val.rows[r][p]]]])

-----------------------------------------------------------------------------
(* The ratio of means                                                      *)
(*                                                                         *)
(* A geometric mean is not a fraction: the value base ^ (1 / root) is held *)
(* as the record [base, root].                                             *)

\* MeansRatio.__init__ raising only when there are more than two conditions
MeansRatio_init_at_most_two(cond_layout, blk_layout, alphs, symm) ==
    LET conditions == Len(cond_layout)
        blocks == Len(blk_layout)
    IN  IF conditions > 2
           THEN Raised("UnsupportedLayoutException")
           ELSE Returned(
                  [condition_layout |->
                       [i \in 1..conditions |-> Range(cond_layout[i])],
                   block_layout |-> [i \in 1..blocks |-> Range(blk_layout[i])],
                   alphas |-> alphs,
                   symmetric |-> symm])

\* MeansRatio(condition_layout, block_layout, alphas, symmetric); map(set, .)
\* is a list of sets
MeansRatio_init(cond_layout, blk_layout, alphs, symm) ==
    LET conditions == Len(cond_layout)
        blocks == Len(blk_layout)
    IN  IF conditions # 2
           THEN Raised("UnsupportedLayoutException")
           ELSE Returned(
                  [condition_layout |->
                       [i \in 1..conditions |-> Range(cond_layout[i])],
                   block_layout |-> [i \in 1..blocks |-> Range(blk_layout[i])],
                   alphas |-> alphs,
                   symmetric |-> symm])

\* a * b on floats
XMul(a, b) ==
    IF a[2] = 0 \/ b[2] = 0 THEN <<Sign(a[1] * b[1]), 0>> ELSE RMul(a, b)

RECURSIVE XProd(_)
XProd(qs) == IF qs = <<>> THEN <<1, 1>> ELSE XMul(Head(qs), XProd(Tail(qs)))

\* scipy.stats.gmean(ratio, axis=-1) of one row: exp(mean(log(ratio))), where
\* the log of a negative number and the mean of no number are nan
gmean(qs) ==
    IF qs = <<>> \/ (\E k \in 1..Len(qs) : IsNan(qs[k]) \/ qs[k][1] < 0)
       THEN [base |-> <<0, 0>>, root |-> Len(qs)]
       ELSE [base |-> XProd(qs), root |-> Len(qs)]

\* a <= b on floats: false when an operand is nan
XLeq(a, b) ==
    /\ ~IsNan(a) /\ ~IsNan(b)
    /\ IF a[2] = 0 /\ b[2] = 0 THEN a[1] <= b[1]
                              ELSE a[1] * b[2] <= b[1] * a[2]

\* np.max([ratio, 1.0 / ratio], axis=0) of one element; np.max returns nan
\* when an operand is nan
MaxWithInverse(g) ==
    LET inv == RDiv(<<1, 1>>, g.base)
    IN  IF IsNan(g.base) THEN g
        ELSE IF g.base[2] = 0 THEN (IF g.base[1] > 0 THEN g
                                    ELSE [g EXCEPT !.base = inv])
        ELSE IF inv[2] = 0 THEN [g EXCEPT !.base = inv]
        ELSE IF XLeq(inv, g.base) THEN g ELSE [g EXCEPT !.base = inv]

\* MeansRatio.__call__(data)
MeansRatio_call(ev, t) ==
    LET conds == ev.condition_layout
        blocks == ev.block_layout
        c0_blocks == [b \in 1..Len(blocks) |-> SetToSeq(conds[1] \cap blocks[b])]
        c1_blocks == [b \in 1..Len(blocks) |-> SetToSeq(conds[2] \cap blocks[b])]
        m0 == group_means(t, c0_blocks)
        m1 == group_means(t, c1_blocks)
        vals == ev.alphas.vals
        \* the statistic of feature r with x added to the means
        stat(r, x) ==
            LET ratio == [b \in 1..Len(blocks) |->
                            RDiv(RAdd(m0.val.rows[r][b], x),
                                 RAdd(m1.val.rows[r][b], x))]
            IN  IF ev.symmetric THEN MaxWithInverse(gmean(ratio))
                                ELSE gmean(ratio)
        M == Len(t.rows)
    IN  IF m0.exc # "none" THEN m0
        ELSE IF m1.exc # "none" THEN m1
        ELSE IF ev.alphas.given
           THEN Returned([ndim |-> t.ndim,
                          rows |-> IF t.ndim = 1
                             THEN <<[a \in 1..Len(vals) |->
                                       stat(1, RInt(vals[a]))]>>
                             ELSE [a \in 1..Len(vals) |->
                                     [r \in 1..M |-> stat(r, RInt(vals[a]))]]])
           ELSE Returned([ndim |-> t.ndim - 1,
                          rows |-> <<[r \in 1..M |-> stat(r, <<0, 1>>)]>>])

-----------------------------------------------------------------------------
(* Cumulative histograms                                                   *)
(*                                                                         *)
(* values and bins are tensors of floats; the edges of a row of bins are   *)
(* non-decreasing, as np.histogram requires.                               *)

\* a < b on floats
XLt(a, b) == XLeq(a, b) /\ a # b

\* np.histogram(vals, edges)[0]: bin i holds the values in [edge i, edge i+1),
\* the last bin those in [edge, last edge]
histogram(vals, edges) ==
    LET below(e) == Cardinality({k \in 1..Len(vals) : XLt(vals[k], e)})
        upto(e) == Cardinality({k \in 1..Len(vals) : XLeq(vals[k], e)})
        nb == Len(edges) - 1
    IN  [i \in 1..nb |->
           IF i < nb THEN below(edges[i + 1]) - below(edges[i])
                     ELSE upto(edges[i + 1]) - below(edges[i])]

\* np.cumsum(hist)
cumsum(hist) == [i \in 1..Len(hist) |-> SumSeq(SubSeq(hist, 1, i))]

\* cumulative_hist_shape(bins)
cumulative_hist_shape(bns) ==
    LET shape == Shape(bns)
    IN  Front(shape) \o <<shape[Len(shape)] - 1>>

\* cumulative_hist with the counts summed from the first bin on
cumulative_hist_forward(vals, bns) ==
    LET row(v) == Strict(LAMBDA hist : [b \in 1..Len(hist) |-> RInt(hist[b])],
                         cumsum(histogram(v[1], v[2])))
    IN  Strict(LAMBDA v :
                 Returned([ndim |-> bns.ndim,
                           rows |-> [i \in 1..Len(bns.rows) |->
                                       row(<<v.rows[i], bns.rows[i]>>)]]),
               vals)

\* cumulative_hist(values, bins), values and bins of the same number of axes,
\* or values a single number and bins one row of edges
cumulative_hist(vals, bns) ==
    LET row(v) == Strict(LAMBDA hist : [b \in 1..Len(hist) |-> RInt(hist[b])],
                         Reverse(cumsum(Reverse(histogram(v[1], v[2])))))
    IN  Strict(LAMBDA v :
                 Returned([ndim |-> bns.ndim,
                           rows |-> [i \in 1..Len(bns.rows) |->
                                       row(<<v.rows[i], bns.rows[i]>>)]]),
               vals)

-----------------------------------------------------------------------------
(* Bin edges: bins_uniform, bins_custom *)

\* np.max of a row of numbers; an empty row has no maximum (ValueError)
XMax(row) == CHOOSE x \in Range(row) : \A k \in 1..Len(row) : XLeq(row[k], x)

\* np.linspace(start, stop, num): num evenly spaced points, both ends included
linspace(start, stop, num) ==
    [k \in 1..num |->
        IF num = 1 THEN start
        ELSE RAdd(start, RMul(RSub(stop, start), <<k - 1, num - 1>>))]

\* bins_uniform(num_bins, stats): one row of edges for each index of the
\* leading axes of stats
bins_uniform(nb, sts) ==
    LET edges(row) ==
            LET e == linspace(RInt(0), XMax(row), nb) \o << <<1, 0>> >>
            IN  [e EXCEPT ![1] = <<-1, 0>>]
    IN  IF \E i \in 1..Len(sts.rows) : sts.rows[i] = <<>>
           THEN Raised("ValueError")
           ELSE Returned([ndim |-> sts.ndim,
                          rows |-> [i \in 1..Len(sts.rows) |-> edges(sts.rows[i])]])

\* sorted(row) of a row of numbers
RECURSIVE sorted(_)
sorted(row) ==
    IF row = <<>> THEN <<>>
    ELSE LET i == CHOOSE j \in 1..Len(row) :
                      \A k \in 1..Len(row) : XLeq(row[j], row[k])
         IN  <<row[i]>> \o sorted(SubSeq(row, 1, i - 1)
                                    \o SubSeq(row, i + 1, Len(row)))

\* bins_custom(num_bins, stats).  bins[:-1] and bins[-1] select along the
\* first axis.  For 1-d stats that is the axis of the edges: the sorted values
\* are copied in (one value is broadcast) and the last edge set to inf.  For
\* 2-d stats it is the axis of the features: sorted() compares whole rows,
\* which fails for rows of more than one number; the rows are copied into
\* all rows of edges but the last, which fails when the shapes differ; and the
\* last row of edges is filled with inf.
bins_custom(nb, sts) ==
    LET m == Len(sts.rows)
        n == LastAxis(sts)
        inf == <<1, 0>>
    IN  IF sts.ndim = 1
           THEN IF n = nb
                   THEN Returned([ndim |-> 1,
                                  rows |-> <<sorted(sts.rows[1]) \o <<inf>> >>])
                ELSE IF n = 1
                   THEN Returned([ndim |-> 1,
                                  rows |-> <<[k \in 1..nb |-> sts.rows[1][1]]
                                             \o <<inf>> >>])
                ELSE Raised("ValueError")
        ELSE IF m >= 2 \/ (n # nb + 1 /\ n # 1)
           THEN Raised("ValueError")
        ELSE Returned([ndim |-> 2, rows |-> <<[k \in 1..(nb + 1) |-> inf]>>])

-----------------------------------------------------------------------------
(* Bootstrapping: random_indexes, the accumulators, bootstrap's pieces     *)

\* The rows random_indexes can draw: for each group of the layout, as many
\* picks from the group, with replacement, as the group has members
RECURSIVE IndexRows(_)
IndexRows(lay) ==
    IF lay = <<>> THEN {<<>>}
    ELSE {a \o b : a \in [1..Len(lay[1]) -> Range(lay[1])],
                   b \in IndexRows(Tail(lay))}

\* The outcomes random_indexes(layout, R) can have; drawing from an empty
\* group makes np.random.random_integers raise ValueError
random_indexes(lay, r) ==
    IF r > 0 /\ (\E j \in 1..Len(lay) : Len(lay[j]) = 0)
       THEN {Raised("ValueError")}
       ELSE {Returned(m) : m \in [1..r -> IndexRows(lay)]}

\* a + b with the last axes broadcast; the arrays have the same leading axes
BroadcastAdd(a, b) ==
    LET na == LastAxis(a)
        nb == LastAxis(b)
        n == IF na = 1 THEN nb ELSE na
    IN  IF na # nb /\ na # 1 /\ nb # 1 THEN Raised("ValueError")
        ELSE Returned([ndim |-> a.ndim,
                       rows |-> [r \in 1..Len(a.rows) |->
                          [c \in 1..n |->
                             a.rows[r][IF na = 1 THEN 1 ELSE c]
                               + b.rows[r][IF nb = 1 THEN 1 ELSE c]]]])

\* build_sample(idxs) leaving the residuals out
build_sample_without_residuals(t, res, idxs) == Index(t, idxs)

\* build_sample(idxs)
build_sample(t, res, idxs) ==
    IF res = NoResiduals
       THEN Index(t, idxs)
       ELSE LET picked == Index(res, idxs)
            IN  IF picked.exc # "none" THEN picked
                ELSE BroadcastAdd(t, picked.val)

\* The callables given as stat_fn: the sum of squares about the mean of all
\* the samples, and the F-test of the docstring of Ftest
ApplyStat(name, t) ==
    Strict(LAMBDA x :
             IF name = "rss"
                THEN group_rss(x, "float", <<[i \in 1..LastAxis(x) |-> i - 1]>>)
                ELSE Ftest_call(Ftest_init(DocFull, DocReduced, NoAlphas).val,
                                x, "float"),
           t)

\* DEFAULT_ACCUMULATOR.reduce_fn: res + [val]
default_reduce_fn(res, val) == res \o <<val>>

\* DEFAULT_ACCUMULATOR.finalize_fn: np.array(x) of a list of arrays of one
\* shape; the array of the empty list has the shape (0,)
default_finalize_fn(x) ==
    IF x = <<>> THEN [ndim |-> 1, rows |-> << <<>> >>]
    ELSE IF x[1].ndim = 0
        THEN [ndim |-> 1, rows |-> <<[r \in 1..Len(x) |-> x[r].rows[1][1]]>>]
        ELSE [ndim |-> 2, rows |-> [r \in 1..Len(x) |-> x[r].rows[1]]]

\* _binning_accumulator: initializer
binning_initializer(bns) ==
    LET shape == cumulative_hist_shape(bns)
    IN  [ndim |-> bns.ndim,
         rows |-> [i \in 1..Len(bns.rows) |->
                     [b \in 1..shape[Len(shape)] |-> <<0, 1>>]]]

\* _binning_accumulator: a reduce_fn that keeps the last histogram only
binning_reduce_fn_last(res, val, bns) ==
    cumulative_hist(val, bns)

\* _binning_accumulator: reduce_fn
binning_reduce_fn(res, val, bns) ==
    LET hist == cumulative_hist(val, bns)
    IN  IF hist.exc # "none" THEN hist
        ELSE Returned([ndim |-> res.ndim,
                       rows |-> [i \in 1..Len(res.rows) |->
                          [b \in 1..Len(res.rows[i]) |->
                             RAdd(res.rows[i][b], hist.val.rows[i][b])]]])

\* _binning_accumulator: a finalize_fn that returns the sum as it is
binning_finalize_fn_sum(res, num_samples) == res

\* _binning_accumulator: finalize_fn
binning_finalize_fn(res, num_samples) ==
    [ndim |-> res.ndim,
     rows |-> [i \in 1..Len(res.rows) |->
                 [b \in 1..Len(res.rows[i]) |->
                    RDiv(res.rows[i][b], RInt(num_samples))]]]

-----------------------------------------------------------------------------
(* Counting orderings: num_orderings *)

\* scipy.misc.comb(N, k): the binomial coefficient
RECURSIVE comb(_, _)
comb(n, k) ==
    IF k = 0 THEN 1
    ELSE IF k > n THEN 0
    ELSE (comb(n - 1, k - 1) * n) \div k

\* The loop "while size < len(reduced[0]): size += len(full[r]); r += 1":
\* the r and size it ends with, or IndexError when full[r] does not exist.
RECURSIVE MatchRun(_, _, _, _)
MatchRun(f, want, r, size) ==
    IF size < want
        THEN IF r >= Len(f)
                THEN [exc |-> "IndexError", r |-> r, size |-> size]
                ELSE MatchRun(f, want, r + 1, size + Len(f[r + 1]))
        ELSE [exc |-> "none", r |-> r, size |-> size]

\* num_orderings with N taken as the number of groups, len(full), instead of
\* the number of indexes
RECURSIVE num_orderings_N_is_len(_, _)
num_orderings_N_is_len(f, red) ==
    IF red = None \/ Len(red) = 0
        THEN IF Len(f) <= 1
                THEN Returned(1)
                ELSE Returned(comb(Len(f), Len(f[1]))
                              * num_orderings_N_is_len(Tail(f), None).val)
        ELSE LET m == MatchRun(f, Len(red[1]), 0, 0)
             IN  IF m.exc # "none" THEN Raised(m.exc)
                 ELSE IF m.size > Len(red[1])
                     THEN Raised("InvalidLayoutException")
                 ELSE LET num_arr_first ==
                              num_orderings_N_is_len(Slice(f, 0, m.r), None)
                          num_arr_rest ==
                              num_orderings_N_is_len(Slice(f, m.r, Len(f)),
                                                     Tail(red))
                      IN  IF num_arr_rest.exc # "none" THEN num_arr_rest
                          ELSE Returned(num_arr_first.val * num_arr_rest.val)

RECURSIVE num_orderings(_, _)
num_orderings(f, red) ==
    IF red = None \/ Len(red) = 0
        THEN IF Len(f) <= 1
                THEN Returned(1)
                ELSE LET n == SumSeq(MapLen(f))
                         k == Len(f[1])
                     IN  Returned(comb(n, k) * num_orderings(Tail(f), None).val)
        ELSE LET m == MatchRun(f, Len(red[1]), 0, 0)
             IN  IF m.exc # "none" THEN Raised(m.exc)
                 ELSE IF m.size > Len(red[1])
                     THEN Raised("InvalidLayoutException")
                 ELSE LET num_arr_first == num_orderings(Slice(f, 0, m.r), None)
                          num_arr_rest == num_orderings(Slice(f, m.r, Len(f)),
                                                        Tail(red))
                      IN  IF num_arr_rest.exc # "none" THEN num_arr_rest
                          ELSE Returned(num_arr_first.val * num_arr_rest.val)

-----------------------------------------------------------------------------
(* Enumerating orderings: all_orderings_within_group, all_orderings *)

\* itertools.combinations(s, k) over the sequence s, as lists, in its order
RECURSIVE combinations(_, _)
combinations(s, k) ==
    IF k = 0 THEN << <<>> >>
    ELSE IF Len(s) < k THEN <<>>
    ELSE LET withHead == combinations(Tail(s), k - 1)
         IN  [i \in 1..Len(withHead) |-> <<Head(s)>> \o withHead[i]]
             \o combinations(Tail(s), k)

\* all_orderings_within_group that skips the first combination of every level
RECURSIVE all_orderings_within_group_skips_first(_, _)
all_orderings_within_group_skips_first(its, szs) ==
    IF Cardinality(its) # SumSeq(szs)
        THEN Yields(<<>>, "InvalidLayoutException")
    ELSE IF szs = <<>>
        THEN Yields(<<>>, "IndexError")
    ELSE LET cs == Tail(combinations(SetToSeq(its), szs[1]))
         IN  IF Len(szs) = 1
                THEN Yields(cs, "none")
                ELSE Yields(
                        Concat([i \in 1..Len(cs) |->
                            LET inner == all_orderings_within_group_skips_first(
                                    its \ Range(cs[i]), Tail(szs)).out
                            IN  [j \in 1..Len(inner) |-> cs[i] \o inner[j]]]),
                        "none")

\* list(all_orderings_within_group(items, sizes)) and the exception, if any.
\* An exception of the generator of a later level ends the enumeration after
\* the rows yielded so far.
RECURSIVE all_orderings_within_group(_, _)
all_orderings_within_group(its, szs) ==
    IF Cardinality(its) # SumSeq(szs)
        THEN Yields(<<>>, "InvalidLayoutException")
    ELSE IF szs = <<>>
        THEN Yields(<<>>, "IndexError")
    ELSE LET cs == combinations(SetToSeq(its), szs[1])
         IN  IF Len(szs) = 1
                THEN Yields(cs, "none")
                ELSE Strict(LAMBDA inner :
                        LET bad == {i \in 1..Len(cs) : inner[i].exc # "none"}
                            last == IF bad = {} THEN Len(cs) ELSE Min(bad)
                        IN  Yields(
                               Concat([i \in 1..last |->
                                  [j \in 1..Len(inner[i].out) |->
                                      cs[i] \o inner[i].out[j]]]),
                               IF bad = {} THEN "none" ELSE inner[last].exc),
                        [i \in 1..Len(cs) |->
                            all_orderings_within_group(its \ Range(cs[i]),
                                                       Tail(szs))])

\* The loop "while sum(sizes[p : q]) < len(grp): q += 1": the q it ends with.
\* Once q has passed the end of sizes the sum no longer grows, and the loop
\* never ends: exc = "diverges".
RECURSIVE MatchEnd(_, _, _, _)
MatchEnd(szs, p, q, want) ==
    IF SumSeq(Slice(szs, p, q)) < want
        THEN IF q >= Len(szs)
                THEN [exc |-> "diverges", q |-> q]
                ELSE MatchEnd(szs, p, q + 1, want)
        ELSE [exc |-> "none", q |-> q]

\* The loop over the reduced groups of all_orderings (lines 515-524): the
\* arguments of the all_orderings_within_group generator created for each
\* reduced group, or the exception raised on the way.
RECURSIVE Grouped(_, _, _, _, _)
Grouped(szs, red, i, p, acc) ==
    IF i > Len(red) THEN [exc |-> "none", grouped |-> acc]
    ELSE LET m == MatchEnd(szs, p, p, Len(red[i]))
         IN  IF m.exc # "none" THEN [exc |-> m.exc, grouped |-> acc]
             ELSE IF SumSeq(Slice(szs, p, m.q)) > Len(red[i])
                 THEN [exc |-> "Exception", grouped |-> acc]
             ELSE Grouped(szs, red, i + 1, m.q,
                          Append(acc, [items |-> Range(red[i]),
                                       sizes |-> Slice(szs, p, m.q)]))

\* zip(*lists) in place of product(*lists): the i-th rows of the lists joined
RECURSIVE ProductRows_zipped(_)
ProductRows_zipped(lists) ==
    IF lists = <<>> THEN << <<>> >>
    ELSE LET rest == ProductRows_zipped(Tail(lists))
             first == Head(lists)
         IN  IF Len(lists) = 1 THEN first
             ELSE [i \in 1..Min({Len(first), Len(rest)}) |-> first[i] \o rest[i]]

\* itertools.product(*lists) with each tuple flattened into one row
RECURSIVE ProductRows(_)
ProductRows(lists) ==
    IF lists = <<>> THEN << <<>> >>
    ELSE LET rest == ProductRows(Tail(lists))
             first == Head(lists)
         IN  Concat([i \in 1..Len(first) |->
                       [j \in 1..Len(rest) |-> first[i] \o rest[j]]])

\* all_orderings yielding, before it raises, the rows of the groups that
\* were matched before the failure
all_orderings_partial_rows(f, red) ==
    IF red = None THEN Yields(<<>>, "TypeError")
    ELSE LET g == Grouped(MapLen(f), red, 1, 0, <<>>)
             gens == [i \in 1..Len(g.grouped) |->
                        all_orderings_within_group(
                            g.grouped[i].items, g.grouped[i].sizes)]
             bad == {i \in 1..Len(gens) : gens[i].exc # "none"}
         IN  IF g.exc # "none"
                THEN Yields(ProductRows([i \in 1..Len(gens) |-> gens[i].out]),
                            g.exc)
             ELSE IF bad # {}
                THEN Yields(ProductRows([i \in 1..(Min(bad) - 1) |-> gens[i].out]),
                            gens[Min(bad)].exc)
             ELSE Yields(ProductRows([i \in 1..Len(gens) |-> gens[i].out]),
                         "none")

\* list(all_orderings(full, reduced)) and the exception, if any.  product()
\* exhausts every generator of grouped, in order, before its first tuple, so
\* an exception of a generator is raised before anything is yielded.
all_orderings(f, red) ==
    IF red = None THEN Yields(<<>>, "TypeError")
    ELSE LET g == Grouped(MapLen(f), red, 1, 0, <<>>)
         IN  IF g.exc # "none" THEN Yields(<<>>, g.exc)
             ELSE LET gens == [i \in 1..Len(g.grouped) |->
                                 all_orderings_within_group(
                                     g.grouped[i].items, g.grouped[i].sizes)]
                      bad == {i \in 1..Len(gens) : gens[i].exc # "none"}
                  IN  IF bad # {} THEN Yields(<<>>, gens[Min(bad)].exc)
                      ELSE Yields(ProductRows([i \in 1..Len(gens) |-> gens[i].out]),
                                  "none")

-----------------------------------------------------------------------------
(* Input domains *)

Max(S) == CHOOSE x \in S : \A y \in S : x >= y

\* The layout that puts index i in group a[i] (0: in no group), each group in
\* ascending order.
LayoutOfAssign(a) ==
    LET k == Max({0} \cup {a[i] : i \in DOMAIN a})
    IN  [g \in 1..k |-> SetToSeq({i \in DOMAIN a : a[i] = g})]

\* Every layout of non-empty ascending groups over distinct indices below m
PartialLayouts(m) ==
    {LayoutOfAssign(a) : a \in
        {b \in [0..(m - 1) -> 0..m] :
            \A g \in 1..m : (\E i \in 0..(m - 1) : b[i] = g)
                => \A h \in 1..g : \E i \in 0..(m - 1) : b[i] = h}}

\* The layouts that split 0..n-1, n <= m, into consecutive runs
ConsecutiveLayouts(m) ==
    {l \in PartialLayouts(m) :
        LET c == Concat(l) IN c = [i \in 1..Len(c) |-> i - 1]}

\* The layout pairs of the repository's tests that exceed MaxItems
TestPairs ==
    { << << <<0, 1>>, <<2, 3>>, <<4, 5>> >>, None >>,
      << << <<0, 1>>, <<2, 3>>, <<4, 5>>, <<6, 7>> >>,
         << <<0, 1, 2, 3>>, <<4, 5, 6, 7>> >> >> }

CountPairs ==
    (ConsecutiveLayouts(MaxItems) \X (PartialLayouts(MaxItems) \cup {None}))
        \cup TestPairs

\* largest number of entries of a size list given to all_orderings_within_group
MaxSizes == 3

SizeLists == UNION {[1..n -> 0..MaxItems] : n \in 0..MaxSizes}

Pending == [exc |-> "pending", val |-> 0]

\* no histogram and no bootstrap is involved
BootIdle ==
    /\ values = <<>> /\ bins = NoBins /\ stat_fn = "" /\ sample_layout = None
    /\ indexes = None /\ resid = NoResiduals /\ accum = <<>> /\ consumed = 0
    /\ sample = NoSample /\ num_bins = 0 /\ stats = <<>>

\* no evaluator object, no histogram and no bootstrap is involved
EvalIdle ==
    /\ self = <<>> /\ prev = Pending /\ symmetric = TRUE
    /\ condition_layout = <<>> /\ block_layout = <<>>
    /\ BootIdle

-----------------------------------------------------------------------------
(* Counting and enumeration called as functions *)

CountIdle ==
    /\ EvalIdle
    /\ R = 0 /\ N = 0 /\ orderings = {} /\ yielded = <<>> /\ drawn = FALSE
    /\ data = <<>> /\ layout = <<>> /\ dtype = "float" /\ alphas = NoAlphas

InitCount ==
    /\ pc = "call"
    /\ ret = Pending
    /\ CountIdle
    /\ \/ /\ fn \in {"num_orderings", "all_orderings"}
          /\ \E p \in CountPairs : full = p[1] /\ reduced = p[2]
          /\ items = {} /\ sizes = <<>>
       \/ /\ fn = "all_orderings_within_group"
          /\ items \in SUBSET (0..(MaxItems - 1))
          /\ sizes \in SizeLists
          /\ full = <<>> /\ reduced = <<>>

CallNumOrderings ==
    /\ pc = "call" /\ fn = "num_orderings"
    /\ ret' = num_orderings(full, reduced)
    /\ pc' = "done"
    /\ UNCHANGED <<fn, full, reduced, items, sizes, R, N, orderings, yielded,
                   drawn, data, layout, dtype, alphas, evalVars, bootVars>>

\* list(all_orderings(full, reduced)); a call whose group-matching loop never
\* ends returns nothing and is left at pc = "call".
CallAllOrderings ==
    /\ pc = "call" /\ fn = "all_orderings"
    /\ all_orderings(full, reduced).exc # "diverges"
    /\ ret' = all_orderings(full, reduced)
    /\ pc' = "done"
    /\ UNCHANGED <<fn, full, reduced, items, sizes, R, N, orderings, yielded,
                   drawn, data, layout, dtype, alphas, evalVars, bootVars>>

CallAllOrderingsWithinGroup ==
    /\ pc = "call" /\ fn = "all_orderings_within_group"
    /\ ret' = all_orderings_within_group(items, sizes)
    /\ pc' = "done"
    /\ UNCHANGED <<fn, full, reduced, items, sizes, R, N, orderings, yielded,
                   drawn, data, layout, dtype, alphas, evalVars, bootVars>>

NextCount ==
    \/ CallNumOrderings
    \/ CallAllOrderings
    \/ CallAllOrderingsWithinGroup

SpecCount == InitCount /\ [][NextCount]_vars

-----------------------------------------------------------------------------
(* Random orderings: random_ordering and the random_orderings generator *)

\* The outcomes of np.random.shuffle on a copy of grp: every rearrangement
Shuffles(grp) ==
    {[i \in 1..Len(grp) |-> grp[p[i]]] :
        p \in {q \in [1..Len(grp) -> 1..Len(grp)] :
                 \A i, j \in 1..Len(grp) : q[i] = q[j] => i = j}}

\* random_ordering shuffling the whole row instead of every group on its own
random_ordering_across_groups(f, red) == Shuffles(Concat(red))

\* The rows random_ordering(full, reduced) can return: every group of reduced
\* shuffled, the groups concatenated in order.
RECURSIVE random_ordering(_, _)
random_ordering(f, red) ==
    IF red = <<>> THEN {<<>>}
    ELSE {a \o b : a \in Shuffles(Head(red)), b \in random_ordering(f, Tail(red))}

OrdPairs ==
    ConsecutiveLayouts(MaxIdx) \X (PartialLayouts(MaxIdx) \cup {None})

\* The requested counts: the small ones, and two that reach and exceed the
\* number of orderings of every pair of OrdPairs
RequestedCounts == (0..MaxR) \cup {Fact(MaxIdx), Fact(MaxIdx) + 1}

OrdIdle ==
    /\ EvalIdle
    /\ fn = "random_orderings"
    /\ items = {} /\ sizes = <<>>
    /\ data = <<>> /\ layout = <<>> /\ dtype = "float" /\ alphas = NoAlphas

\* The iterator random_orderings(full, reduced, R) before its first next()
InitOrd ==
    /\ pc = "start"
    /\ ret = Pending
    /\ \E p \in OrdPairs : full = p[1] /\ reduced = p[2]
    /\ R \in RequestedCounts
    /\ N = 0 /\ orderings = {} /\ yielded = <<>> /\ drawn = FALSE
    /\ OrdIdle

\* "if R >= N" with ">" in place of ">="
ExhaustiveTest_strict(r, n) == r > n

\* The test "if R >= N" that selects the exhaustive branch
ExhaustiveTest(r, n) == r >= n

\* "while len(orderings) < R" with "<=" in place of "<"
SamplingLoopTest_inclusive(seen, r) == Cardinality(seen) <= r

\* The test "while len(orderings) < R" of the sampling branch
SamplingLoopTest(seen, r) == Cardinality(seen) < r

OrdFrame ==
    UNCHANGED <<fn, full, reduced, items, sizes, R, data, layout, dtype, alphas,
                evalVars, bootVars>>

\* Lines 555-565: N = num_orderings(full, reduced) and the choice of branch
RandomOrderingsStart ==
    /\ pc = "start"
    /\ LET n == num_orderings(full, reduced)
       IN  IF n.exc # "none"
              THEN /\ pc' = "raised"
                   /\ ret' = Raised(n.exc)
                   /\ N' = N
              ELSE /\ N' = n.val
                   /\ pc' = IF ExhaustiveTest(R, n.val)
                               THEN "exhaustive" ELSE "sampling"
                   /\ ret' = ret
    /\ UNCHANGED <<orderings, yielded, drawn>>
    /\ OrdFrame

\* Lines 566-567: the next row of all_orderings(full, reduced) is yielded
ExhaustiveYield ==
    /\ pc = "exhaustive"
    /\ LET a == all_orderings(full, reduced)
       IN  /\ Len(yielded) < Len(a.out)
           /\ yielded' = Append(yielded, a.out[Len(yielded) + 1])
    /\ UNCHANGED <<pc, ret, N, orderings, drawn>>
    /\ OrdFrame

\* Lines 566-567: all_orderings(full, reduced) is exhausted, or raises
ExhaustiveEnd ==
    /\ pc = "exhaustive"
    /\ LET a == all_orderings(full, reduced)
       IN  /\ Len(yielded) = Len(a.out)
           /\ a.exc # "diverges"
           /\ IF a.exc = "none"
                 THEN pc' = "done" /\ ret' = ret
                 ELSE pc' = "raised" /\ ret' = Raised(a.exc)
    /\ UNCHANGED <<N, orderings, yielded, drawn>>
    /\ OrdFrame

\* Lines 572-579: one turn of the sampling loop
SampleDraw ==
    /\ pc = "sampling"
    /\ SamplingLoopTest(orderings, R)
    /\ drawn' = TRUE
    /\ IF reduced = None
          THEN /\ pc' = "raised"
               /\ ret' = Raised("TypeError")
               /\ UNCHANGED <<orderings, yielded>>
          ELSE /\ \E arr \in random_ordering(full, reduced) :
                    IF arr \notin orderings
                       THEN /\ orderings' = orderings \cup {arr}
                            /\ yielded' = Append(yielded, arr)
                       ELSE UNCHANGED <<orderings, yielded>>
               /\ UNCHANGED <<pc, ret>>
    /\ N' = N
    /\ OrdFrame

\* The sampling loop leaving as soon as one ordering has been yielded
SampleEnd_after_first ==
    /\ pc = "sampling"
    /\ (orderings # {} \/ ~SamplingLoopTest(orderings, R))
    /\ pc' = "done"
    /\ UNCHANGED <<ret, N, orderings, yielded, drawn>>
    /\ OrdFrame

\* Line 572: the sampling loop ends
SampleEnd ==
    /\ pc = "sampling"
    /\ ~SamplingLoopTest(orderings, R)
    /\ pc' = "done"
    /\ UNCHANGED <<ret, N, orderings, yielded, drawn>>
    /\ OrdFrame

NextOrd ==
    \/ RandomOrderingsStart
    \/ ExhaustiveYield
    \/ ExhaustiveEnd
    \/ SampleDraw
    \/ SampleEnd

SpecOrd == InitOrd /\ [][NextOrd]_vars

\* A draw of the sampling loop that yields an ordering not seen before
FreshDraw == SampleDraw /\ yielded' # yielded

\* random_orderings asked for a small number of orderings: the larger
\* requests of SpecOrd all take the exhaustive branch
InitOrdFair == InitOrd /\ R <= MaxR

\* random_orderings driven by a consumer that keeps iterating, with fair
\* draws: a draw of an ordering not yet seen eventually occurs while one can
\* be drawn, and the loop is left once its test fails
SpecOrdFair ==
    /\ InitOrdFair
    /\ [][NextOrd]_vars
    /\ WF_vars(SampleEnd)
    /\ WF_vars(FreshDraw)

-----------------------------------------------------------------------------
(* The three iterators together: the enumerations called as functions and  *)
(* the random_orderings generator                                          *)

InitIter == InitCount \/ InitOrd

NextIter == NextCount \/ NextOrd

SpecIter == InitIter /\ [][NextIter]_vars

-----------------------------------------------------------------------------
(* Layout helpers and evaluator construction called as functions *)

\* The values of the data tensors' elements
Values == {-1, 2}

\* np.arange(n)
Arange(n) == [i \in 1..n |-> i - 1]

SampleRows ==
    UNION {[1..n -> Values] \cup {Arange(n)} : n \in (MaxSamples - 1)..MaxSamples}

\* 1-d tensors, 2-d tensors of one row and 2-d tensors of two rows
Tensors ==
    UNION {{[ndim |-> 1, rows |-> <<row>>],
            [ndim |-> 2, rows |-> <<row>>],
            [ndim |-> 2, rows |-> <<row, Arange(Len(row))>>]} : row \in SampleRows}

\* Layouts over indices below MaxSamples, their groups ascending or descending
OrderedLayouts ==
    PartialLayouts(MaxSamples)
        \cup {[g \in 1..Len(l) |-> Reverse(l[g])] : l \in PartialLayouts(MaxSamples)}

\* ... and the same with an empty first group, or with the indices of the
\* first group named twice
StatLayouts ==
    OrderedLayouts
        \cup {<< <<>> >> \o l : l \in OrderedLayouts}
        \cup {[l EXCEPT ![1] = l[1] \o l[1]] : l \in OrderedLayouts \ {<<>>}}

StatIdle ==
    /\ EvalIdle
    /\ items = {} /\ sizes = <<>>
    /\ R = 0 /\ N = 0 /\ orderings = {} /\ yielded = <<>> /\ drawn = FALSE

InitStat ==
    /\ pc = "call"
    /\ ret = Pending
    /\ StatIdle
    /\ \/ /\ fn \in {"apply_layout", "group_means"}
          /\ data \in Tensors /\ layout \in StatLayouts /\ dtype = "float"
          /\ full = <<>> /\ reduced = <<>> /\ alphas = NoAlphas
       \/ /\ fn \in {"residuals", "group_rss"}
          /\ data \in Tensors /\ layout \in StatLayouts
          /\ dtype \in {"int", "float"}
          /\ full = <<>> /\ reduced = <<>> /\ alphas = NoAlphas
       \/ /\ fn = "Ftest"
          /\ full \in StatLayouts
          /\ reduced \in {<<>>, <<Concat(full)>>}
          /\ alphas \in {NoAlphas, [given |-> TRUE, vals |-> <<0, 1>>]}
          /\ data = <<>> /\ layout = <<>> /\ dtype = "float"

StatFrame ==
    UNCHANGED <<fn, full, reduced, items, sizes, R, N, orderings, yielded,
                drawn, data, layout, dtype, alphas, evalVars, bootVars>>

CallApplyLayout ==
    /\ pc = "call" /\ fn = "apply_layout"
    /\ ret' = apply_layout(data, layout)
    /\ pc' = "done"
    /\ StatFrame

CallGroupMeans ==
    /\ pc = "call" /\ fn = "group_means"
    /\ ret' = group_means(data, layout)
    /\ pc' = "done"
    /\ StatFrame

CallResiduals ==
    /\ pc = "call" /\ fn = "residuals"
    /\ ret' = residuals(data, dtype, layout)
    /\ pc' = "done"
    /\ StatFrame

CallGroupRss ==
    /\ pc = "call" /\ fn = "group_rss"
    /\ ret' = group_rss(data, dtype, layout)
    /\ pc' = "done"
    /\ StatFrame

\* Ftest(layout_full=full, layout_reduced=reduced, alphas=alphas)
CallFtestInit ==
    /\ pc = "call" /\ fn = "Ftest"
    /\ ret' = Ftest_init(full, reduced, alphas)
    /\ pc' = "done"
    /\ StatFrame

NextStat ==
    \/ CallApplyLayout
    \/ CallGroupMeans
    \/ CallResiduals
    \/ CallGroupRss
    \/ CallFtestInit

SpecStat == InitStat /\ [][NextStat]_vars

-----------------------------------------------------------------------------
(* The statistic evaluators: an object is constructed, then called twice   *)
(* on the same data                                                        *)

\* 1-d tensors and 2-d tensors of two rows over MaxSamples samples, and the
\* docstring's data
EvalTensors ==
    {t \in Tensors : LastAxis(t) = MaxSamples /\ (t.ndim = 1 \/ Len(t.rows) = 2)}
        \cup {DocData, [ndim |-> 1, rows |-> <<DocData.rows[1]>>]}

\* The layouts given to Ftest
FtestLayouts == ConsecutiveLayouts(MaxSamples) \cup {DocFull}

\* The layouts of at most three conditions over all the samples
ConditionLayouts ==
    {l \in PartialLayouts(MaxSamples) :
        Len(l) <= 3 /\ SumSeq(MapLen(l)) = MaxSamples}

\* The layouts of blocks: consecutive runs over all the samples, or no block
BlockLayouts ==
    {l \in ConsecutiveLayouts(MaxSamples) : SumSeq(MapLen(l)) \in {0, MaxSamples}}

AlphaChoices == {NoAlphas, [given |-> TRUE, vals |-> <<0, 1>>]}

EvalIdleRest ==
    /\ items = {} /\ sizes = <<>> /\ layout = <<>>
    /\ R = 0 /\ N = 0 /\ orderings = {} /\ yielded = <<>> /\ drawn = FALSE

InitEval ==
    /\ pc = "new"
    /\ ret = Pending /\ prev = Pending /\ self = <<>>
    /\ EvalIdleRest /\ BootIdle
    /\ data \in EvalTensors
    /\ alphas \in AlphaChoices
    /\ \/ /\ fn = "Ftest"
          /\ full \in FtestLayouts
          /\ reduced \in {<<Concat(full)>>, full, <<>>}
          /\ dtype \in {"int", "float"}
          /\ symmetric = TRUE /\ condition_layout = <<>> /\ block_layout = <<>>
       \/ /\ fn = "OneSampleTTest"
          /\ full = <<>> /\ reduced = <<>> /\ dtype = "float"
          /\ symmetric = TRUE /\ condition_layout = <<>> /\ block_layout = <<>>
       \/ /\ fn = "OneSampleDifferenceTTest"
          /\ full = <<>> /\ reduced \in PartialLayouts(MaxSamples)
          /\ dtype = "float"
          /\ symmetric = TRUE /\ condition_layout = <<>> /\ block_layout = <<>>
       \/ /\ fn = "MeansRatio"
          /\ full = <<>> /\ reduced = <<>> /\ dtype = "float"
          /\ symmetric \in BOOLEAN
          /\ condition_layout \in ConditionLayouts
          /\ block_layout \in BlockLayouts

EvalFrame ==
    UNCHANGED <<fn, full, reduced, items, sizes, R, N, orderings, yielded,
                drawn, layout, dtype, alphas, symmetric, condition_layout,
                block_layout, bootVars>>

\* The constructor returns the object, or raises
Constructed(outcome) ==
    /\ ret' = outcome
    /\ self' = IF outcome.exc = "none" THEN outcome.val ELSE self
    /\ pc' = IF outcome.exc = "none" THEN "built" ELSE "raised"
    /\ UNCHANGED <<prev, data>>
    /\ EvalFrame

\* A call that leaves its result in the first row of data as well
Called_writing_data(outcome) ==
    /\ prev' = ret
    /\ ret' = outcome
    /\ pc' = IF pc = "built" THEN "called" ELSE "again"
    /\ data' = [data EXCEPT !.rows[1] = [c \in 1..LastAxis(data) |-> 0]]
    /\ UNCHANGED self
    /\ EvalFrame

\* The object is called on data, for the first or the second time; the call
\* assigns to no field of the object and to no element of data
Called(outcome) ==
    /\ prev' = ret
    /\ ret' = outcome
    /\ pc' = IF pc = "built" THEN "called" ELSE "again"
    /\ UNCHANGED <<self, data>>
    /\ EvalFrame

ConstructFtest ==
    /\ pc = "new" /\ fn = "Ftest"
    /\ Constructed(Ftest_init(full, reduced, alphas))

CallFtest ==
    /\ pc \in {"built", "called"} /\ fn = "Ftest"
    /\ Called(Ftest_call(self, data, dtype))

ConstructOneSampleTTest ==
    /\ pc = "new" /\ fn = "OneSampleTTest"
    /\ Constructed(OneSampleTTest_init(alphas))

CallOneSampleTTest ==
    /\ pc \in {"built", "called"} /\ fn = "OneSampleTTest"
    /\ Called(OneSampleTTest_call(self, data))

ConstructOneSampleDifferenceTTest ==
    /\ pc = "new" /\ fn = "OneSampleDifferenceTTest"
    /\ Constructed(OneSampleDifferenceTTest_init(reduced, alphas))

CallOneSampleDifferenceTTest ==
    /\ pc \in {"built", "called"} /\ fn = "OneSampleDifferenceTTest"
    /\ Called(OneSampleDifferenceTTest_call(self, data))

ConstructMeansRatio ==
    /\ pc = "new" /\ fn = "MeansRatio"
    /\ Constructed(MeansRatio_init(condition_layout, block_layout, alphas,
                                   symmetric))

CallMeansRatio ==
    /\ pc \in {"built", "called"} /\ fn = "MeansRatio"
    /\ Called(MeansRatio_call(self, data))

NextEval ==
    \/ ConstructFtest
    \/ CallFtest
    \/ ConstructOneSampleTTest
    \/ CallOneSampleTTest
    \/ ConstructOneSampleDifferenceTTest
    \/ CallOneSampleDifferenceTTest
    \/ ConstructMeansRatio
    \/ CallMeansRatio

SpecEval == InitEval /\ [][NextEval]_vars

-----------------------------------------------------------------------------
(* cumulative_hist called as a function *)

\* The numbers given as values: 0, 1, 2, 3 and nan
HistValues == {RInt(k) : k \in 0..3} \cup {<<0, 0>>}

\* The numbers given as bin edges: -inf, 0, 1, 2 and inf
EdgeValues == {RInt(k) : k \in 0..2} \cup {<<-1, 0>>, <<1, 0>>}

ValueRows == UNION {[1..n -> HistValues] : n \in 0..MaxValues}

\* The rows of bin edges: non-decreasing, at least one bin
EdgeRows ==
    {e \in UNION {[1..n -> EdgeValues] : n \in 2..(MaxBins + 1)} :
        \A i \in 1..(Len(e) - 1) : XLeq(e[i], e[i + 1])}

InitHist ==
    /\ pc = "call"
    /\ ret = Pending
    /\ fn = "cumulative_hist"
    /\ \E v \in ValueRows, e \in EdgeRows :
          \/ /\ values = [ndim |-> 1, rows |-> <<v>>]
             /\ bins = [ndim |-> 1, rows |-> <<e>>]
          \/ /\ values = [ndim |-> 2, rows |-> <<v, Reverse(v)>>]
             /\ bins = [ndim |-> 2, rows |-> <<e, e>>]
    /\ stat_fn = "" /\ sample_layout = None /\ indexes = None
    /\ resid = NoResiduals /\ accum = <<>> /\ consumed = 0
    /\ sample = NoSample /\ num_bins = 0 /\ stats = <<>>
    /\ self = <<>> /\ prev = Pending /\ symmetric = TRUE
    /\ condition_layout = <<>> /\ block_layout = <<>>
    /\ EvalIdleRest
    /\ full = <<>> /\ reduced = <<>> /\ data = <<>> /\ dtype = "float"
    /\ alphas = NoAlphas

CallCumulativeHist ==
    /\ pc = "call" /\ fn = "cumulative_hist"
    /\ ret' = cumulative_hist(values, bins)
    /\ pc' = "done"
    /\ UNCHANGED <<fn, full, reduced, items, sizes, R, N, orderings, yielded,
                   drawn, data, layout, dtype, alphas, evalVars, bootVars>>

NextHist == CallCumulativeHist

SpecHist == InitHist /\ [][NextHist]_vars

-----------------------------------------------------------------------------
(* bins_uniform and bins_custom called as functions *)

\* The numbers given as statistic values
StatValues == {RInt(k) : k \in -2..2}

\* The arrays given as stats: 1-d, and 2-d with one or two features
StatArrays ==
    LET rows == UNION {[1..n -> StatValues] : n \in 1..MaxValues}
    IN  {[ndim |-> 1, rows |-> <<v>>] : v \in rows}
        \cup {[ndim |-> 2, rows |-> <<v>>] : v \in rows}
        \cup {[ndim |-> 2, rows |-> <<v, Reverse(v)>>] : v \in rows}

InitBins ==
    /\ pc = "call"
    /\ ret = Pending
    /\ fn \in {"bins_uniform", "bins_custom"}
    /\ num_bins \in 1..(MaxBins + 1)
    /\ stats \in StatArrays
    /\ values = <<>> /\ bins = NoBins /\ stat_fn = "" /\ sample_layout = None
    /\ indexes = None /\ resid = NoResiduals /\ accum = <<>> /\ consumed = 0
    /\ sample = NoSample
    /\ self = <<>> /\ prev = Pending /\ symmetric = TRUE
    /\ condition_layout = <<>> /\ block_layout = <<>>
    /\ EvalIdleRest
    /\ full = <<>> /\ reduced = <<>> /\ data = <<>> /\ dtype = "float"
    /\ alphas = NoAlphas

CallBinsUniform ==
    /\ pc = "call" /\ fn = "bins_uniform"
    /\ ret' = bins_uniform(num_bins, stats)
    /\ pc' = "done"
    /\ UNCHANGED <<fn, full, reduced, items, sizes, R, N, orderings, yielded,
                   drawn, data, layout, dtype, alphas, evalVars, bootVars>>

CallBinsCustom ==
    /\ pc = "call" /\ fn = "bins_custom"
    /\ ret' = bins_custom(num_bins, stats)
    /\ pc' = "done"
    /\ UNCHANGED <<fn, full, reduced, items, sizes, R, N, orderings, yielded,
                   drawn, data, layout, dtype, alphas, evalVars, bootVars>>

NextBins ==
    \/ CallBinsUniform
    \/ CallBinsCustom

SpecBins == InitBins /\ [][NextBins]_vars

-----------------------------------------------------------------------------
(* bootstrap: the set-up, one step of reduce per index row, the finalizing *)

\* Two features over two samples, and the docstring's data
BootData ==
    {[ndim |-> 2, rows |-> << <<-1, 2>>, <<0, 1>> >>], DocData}

\* One feature given as a 1-d array over two samples
BootVector == [ndim |-> 1, rows |-> << <<-1, 2>> >>]

\* The rows of the index tables given as indexes
GivenIndexRows == {<<0, 1>>, <<1, 1>>, <<0, 1, 1, 0>>, <<3, 2, 1, 0>>}

\* The layouts given as sample_layout
SampleLayouts == {None, << <<0, 1>> >>, << <<0>>, <<1>> >>, << <<>>, <<1, 0>> >>}

\* The edges given as bins
BootBins ==
    {NoBins,
     [ndim |-> 1, rows |-> << <<RInt(0), RInt(1), <<1, 0>> >> >>],
     [ndim |-> 1, rows |-> << <<RInt(1), RInt(4)>> >>],
     [ndim |-> 1, rows |-> << << <<-1, 0>>, RInt(1), <<1, 0>> >> >>]}

\* residuals: None, or an array shaped like data
BootResiduals(t) ==
    {NoResiduals, [t EXCEPT !.rows = [r \in 1..Len(t.rows) |-> Reverse(t.rows[r])]]}

InitBoot ==
    /\ pc = "start"
    /\ ret = Pending
    /\ fn = "bootstrap"
    /\ stat_fn \in {"rss", "Ftest"}
    /\ bins \in BootBins
    /\ \/ /\ indexes \in UNION {[1..k -> GivenIndexRows] : k \in 0..MaxR}
          /\ data \in BootData
          /\ R = 1000 /\ sample_layout = None
       \/ /\ indexes = None
          /\ data \in {t \in BootData : LastAxis(t) = 2}
          /\ R \in 0..MaxR /\ sample_layout \in SampleLayouts
       \/ /\ indexes = None
          /\ data = BootVector
          /\ R \in 0..MaxR /\ sample_layout = None
    /\ resid \in BootResiduals(data)
    /\ accum = <<>> /\ consumed = 0 /\ values = <<>> /\ sample = NoSample
    /\ num_bins = 0 /\ stats = <<>>
    /\ self = <<>> /\ prev = Pending /\ symmetric = TRUE
    /\ condition_layout = <<>> /\ block_layout = <<>>
    /\ items = {} /\ sizes = <<>> /\ layout = <<>>
    /\ N = 0 /\ orderings = {} /\ yielded = <<>> /\ drawn = FALSE
    /\ full = <<>> /\ reduced = <<>> /\ dtype = "float" /\ alphas = NoAlphas

BootFrame ==
    UNCHANGED <<fn, full, reduced, items, sizes, R, N, orderings, yielded,
                drawn, data, layout, dtype, alphas, evalVars, values, bins,
                stat_fn, sample_layout, resid, num_bins, stats>>

\* Lines 327-340: the index table is taken or drawn, the accumulator chosen
BootstrapStart ==
    /\ pc = "start"
    /\ \E drawing \in
            IF indexes # None THEN {Returned(indexes)}
            ELSE IF sample_layout # None
                THEN random_indexes(sample_layout, R)
            ELSE IF Len(Shape(data)) < 2 THEN {Raised("IndexError")}
            ELSE random_indexes(<<Arange(Shape(data)[2])>>, R) :
          IF drawing.exc # "none"
             THEN /\ ret' = Raised(drawing.exc)
                  /\ pc' = "raised"
                  /\ UNCHANGED <<indexes, accum>>
             ELSE /\ indexes' = drawing.val
                  /\ accum' = IF bins = NoBins THEN <<>>
                                               ELSE binning_initializer(bins)
                  /\ pc' = "reduce"
                  /\ UNCHANGED ret
    /\ UNCHANGED <<consumed, sample>>
    /\ BootFrame

\* One step of reduce (line 350): the next index row is taken, the sample
\* built, the statistic computed and accumulated; an exception ends the call
BootstrapStep ==
    /\ pc = "reduce" /\ consumed < Len(indexes)
    /\ LET s == build_sample(data, resid, indexes[consumed + 1])
           stat == IF s.exc # "none" THEN s ELSE ApplyStat(stat_fn, s.val)
           next == IF stat.exc # "none" THEN stat
                   ELSE IF bins = NoBins
                       THEN Returned(default_reduce_fn(accum, stat.val))
                   ELSE binning_reduce_fn(accum, stat.val, bins)
       IN  /\ sample' = IF s.exc # "none" THEN sample ELSE s.val
           /\ IF next.exc # "none"
                 THEN /\ ret' = Raised(next.exc)
                      /\ pc' = "raised"
                      /\ UNCHANGED <<accum, consumed>>
                 ELSE /\ accum' = next.val
                      /\ consumed' = consumed + 1
                      /\ UNCHANGED <<ret, pc>>
    /\ UNCHANGED indexes
    /\ BootFrame

\* Line 354: the accumulated value is finalized and returned
BootstrapFinish ==
    /\ pc = "reduce" /\ consumed = Len(indexes)
    /\ ret' = Returned(IF bins = NoBins
                          THEN default_finalize_fn(accum)
                          ELSE binning_finalize_fn(accum, Len(indexes)))
    /\ pc' = "done"
    /\ UNCHANGED <<indexes, accum, consumed, sample>>
    /\ BootFrame

NextBoot ==
    \/ BootstrapStart
    \/ BootstrapStep
    \/ BootstrapFinish

SpecBoot == InitBoot /\ [][NextBoot]_vars

\* cumulative_hist called as a function, or from bootstrap's accumulator
InitBinned == InitHist \/ InitBoot

NextBinned == NextHist \/ NextBoot

SpecBinned == InitBinned /\ [][NextBinned]_vars

-----------------------------------------------------------------------------
(* Properties of the counting and enumeration functions *)

RECURSIVE ProdSeq(_)
ProdSeq(s) == IF s = <<>> THEN 1 ELSE Head(s) * ProdSeq(Tail(s))

\* N! / (k_1! * ... * k_m!) for the sizes k_1 .. k_m, N their sum
Multinomial(szs) ==
    Fact(SumSeq(szs)) \div ProdSeq([i \in 1..Len(szs) |-> Fact(szs[i])])

\* Offset at which group g of a layout with these sizes starts
StartOf(szs, g) == SumSeq(SubSeq(szs, 1, g - 1))

\* The offsets at which the groups of a layout with these sizes start or end
Boundaries(szs) == {StartOf(szs, g) : g \in 1..(Len(szs) + 1)}

\* Every reduced group is filled exactly by a run of consecutive full groups,
\* and no full group is left over.
SizesMatch(f, red) ==
    /\ SumSeq(MapLen(f)) = SumSeq(MapLen(red))
    /\ Boundaries(MapLen(red)) \subseteq Boundaries(MapLen(f))

\* The sizes of the full groups lying inside reduced group i (groups non-empty)
RunSizes(f, red, i) ==
    LET fs == MapLen(f)
        rs == MapLen(red)
        js == {j \in 1..Len(fs) :
                 /\ StartOf(fs, j) >= StartOf(rs, i)
                 /\ StartOf(fs, j) < StartOf(rs, i + 1)}
    IN  [x \in 1..Cardinality(js) |-> fs[Min(js) + x - 1]]

\* Every reduced group's index set is the union of a run of full groups
IndexAligned(f, red) ==
    \A i \in 1..Len(red) :
        \E a \in 1..Len(f) : \E b \in a..Len(f) :
            Range(red[i]) = UNION {Range(f[j]) : j \in a..b}

\* The index sets an ordering y gives to the consecutive groups of these sizes
SplitOf(y, szs) ==
    [g \in 1..Len(szs) |->
        {y[p] : p \in (StartOf(szs, g) + 1)..StartOf(szs, g + 1)}]

FourPairs == << <<0, 1>>, <<2, 3>>, <<4, 5>>, <<6, 7>> >>
TwoFours == << <<0, 1, 2, 3>>, <<4, 5, 6, 7>> >>

WithinGroupEnumeratesSplits ==
    /\ ret.exc = "none"
    /\ Len(ret.out) = Multinomial(sizes)
    /\ \A i \in 1..Len(ret.out) :
        /\ Len(ret.out[i]) = Cardinality(items)
        /\ Range(ret.out[i]) = items
    /\ \A i \in 1..Len(ret.out) : \A j \in (i + 1)..Len(ret.out) :
        SplitOf(ret.out[i], sizes) # SplitOf(ret.out[j], sizes)
    /\ (items = {0, 1, 2, 3} /\ sizes = <<2, 2>>)
        => ret.out = << <<0, 1, 2, 3>>, <<0, 2, 1, 3>>, <<0, 3, 1, 2>>,
                        <<1, 2, 0, 3>>, <<1, 3, 0, 2>>, <<2, 3, 0, 1>> >>

\* C3 as stated: for every item set and every list of sizes that sums to the
\* number of items, all_orderings_within_group yields every split of the items
\* into consecutive groups of those sizes exactly once (multinomially many
\* yields, no two with the same index sets in the same groups), and the six
\* listed groupings for {0,1,2,3} and [2,2].
C3_EverySplitOnce_AnySizes ==
    (fn = "all_orderings_within_group" /\ pc = "done"
        /\ SumSeq(sizes) = Cardinality(items))
    => WithinGroupEnumeratesSplits

\* C3 amended: the same, for every non-empty list of sizes (with an empty list
\* and no items the generator raises IndexError at sizes[0]).
C3_EverySplitOnce ==
    (fn = "all_orderings_within_group" /\ pc = "done"
        /\ sizes # <<>> /\ SumSeq(sizes) = Cardinality(items))
    => WithinGroupEnumeratesSplits

C3_Witness ==
    /\ fn = "all_orderings_within_group" /\ pc = "done"
    /\ items = {0, 1, 2, 3} /\ sizes = <<2, 2>>
    /\ ret.exc = "none" /\ Len(ret.out) = 6

\* C4: num_orderings(full, None) is the multinomial coefficient of the full
\* layout's group sizes (1, 1, 2, 6 and 90 on the tests' layouts), and with a
\* reduced layout whose groups are filled exactly by runs of full groups it is
\* the product of the coefficients of the runs (36 for four pairs reduced to
\* two groups of four).
C4_NumOrderingsIsMultinomial ==
    (fn = "num_orderings" /\ pc = "done") =>
        /\ reduced = None => ret = Returned(Multinomial(MapLen(full)))
        /\ (reduced # None /\ reduced # <<>> /\ SizesMatch(full, reduced))
            => ret = Returned(ProdSeq([i \in 1..Len(reduced) |->
                                Multinomial(RunSizes(full, reduced, i))]))
        /\ (reduced = None /\ full = << <<0>> >>) => ret.val = 1
        /\ (reduced = None /\ full = << <<0, 1>> >>) => ret.val = 1
        /\ (reduced = None /\ full = << <<0>>, <<1>> >>) => ret.val = 2
        /\ (reduced = None /\ full = << <<0, 1>>, <<2, 3>> >>) => ret.val = 6
        /\ (reduced = None /\ full = << <<0, 1>>, <<2, 3>>, <<4, 5>> >>)
            => ret.val = 90
        /\ (reduced = TwoFours /\ full = FourPairs) => ret.val = 36

C4_Witness ==
    /\ fn = "num_orderings" /\ pc = "done"
    /\ full = FourPairs /\ reduced = TwoFours
    /\ ret = Returned(36)

\* C5: num_orderings raises InvalidLayoutException for every pair in which
\* some reduced group is not filled exactly by a run of full groups, also when
\* the full layout runs out of groups or has groups left over.
C5_MismatchRaisesInvalidLayout ==
    (fn = "num_orderings" /\ pc = "done" /\ full # <<>>
        /\ reduced # None /\ reduced # <<>> /\ ~SizesMatch(full, reduced))
    => ret.exc = "InvalidLayoutException"

\* C6: a pair in which some reduced group's index set is not the union of a
\* run of full groups is rejected by num_orderings and by all_orderings, also
\* when the group sizes add up.
C6_MisalignedIndexSetsRejected ==
    (fn \in {"num_orderings", "all_orderings"} /\ pc = "done"
        /\ reduced # None /\ SizesMatch(full, reduced)
        /\ Range(Concat(reduced)) = Range(Concat(full))
        /\ ~IndexAligned(full, reduced))
    => ret.exc # "none"

NoDuplicates(seq) ==
    \A i \in 1..Len(seq) : \A j \in (i + 1)..Len(seq) : seq[i] # seq[j]

\* A full layout and a reduced layout over the same indexes, every reduced
\* group filled exactly by a run of consecutive full groups
ValidPair(f, red) ==
    /\ red # None
    /\ SizesMatch(f, red)
    /\ Range(Concat(red)) = Range(Concat(f))
    /\ IndexAligned(f, red)

\* The rows all_orderings_within_group yields for reduced group i
RowsWithinGroup(f, red, i) ==
    Range(all_orderings_within_group(Range(red[i]), RunSizes(f, red, i)).out)

\* Every way of taking one row per reduced group, the rows joined in order
JoinedRows(f, red) ==
    {Concat(c) : c \in {d \in [1..Len(red) ->
                                  UNION {RowsWithinGroup(f, red, i) :
                                            i \in 1..Len(red)}] :
                          \A i \in 1..Len(red) :
                              d[i] \in RowsWithinGroup(f, red, i)}}

\* C19: for every valid pair of layouts all_orderings(full, reduced) yields
\* exactly num_orderings(full, reduced) rows, no two of them equal, and the
\* rows are the Cartesian product of the per-group enumerations: each row is
\* one all_orderings_within_group result per reduced group, joined in order,
\* and every such combination is yielded.
C19_AllOrderingsIsProduct ==
    (fn = "all_orderings" /\ pc = "done" /\ ValidPair(full, reduced)) =>
        /\ ret.exc = "none"
        /\ num_orderings(full, reduced) = Returned(Len(ret.out))
        /\ NoDuplicates(ret.out)
        /\ Range(ret.out) = JoinedRows(full, reduced)

\* Two reduced groups with more than one row each: 6 * 6 rows
C19_Witness ==
    /\ fn = "all_orderings" /\ pc = "done"
    /\ full = FourPairs /\ reduced = TwoFours
    /\ ret.exc = "none" /\ Len(ret.out) = 36
    /\ <<2, 3, 0, 1, 4, 5, 6, 7>> \in Range(ret.out)

-----------------------------------------------------------------------------
(* Properties of the random_orderings generator *)

IsPrefix(a, b) == Len(a) <= Len(b) /\ a = SubSeq(b, 1, Len(a))

\* C1: random_orderings(full, reduced, R) never yields more than R orderings,
\* and when R <= num_orderings(full, reduced) it never yields the same
\* ordering twice.
C1_AtMostRAndNoDuplicates ==
    fn = "random_orderings" =>
        /\ Len(yielded) <= R
        /\ (num_orderings(full, reduced).exc = "none"
                /\ R <= num_orderings(full, reduced).val)
            => NoDuplicates(yielded)

C1_Witness ==
    /\ fn = "random_orderings" /\ pc = "done"
    /\ drawn /\ R < N /\ R = 2 /\ Len(yielded) = R

\* C2: when R >= num_orderings(full, reduced) the generator takes the
\* exhaustive branch: it never draws a random ordering, what it has yielded
\* is always a prefix of all_orderings(full, reduced), each row once, and when
\* it ends it has yielded exactly that sequence.
C2_ExhaustiveBranch ==
    (fn = "random_orderings" /\ pc # "start"
        /\ num_orderings(full, reduced).exc = "none"
        /\ R >= num_orderings(full, reduced).val)
    => /\ ~drawn
       /\ pc # "sampling"
       /\ IsPrefix(yielded, all_orderings(full, reduced).out)
       /\ NoDuplicates(yielded)
       /\ pc = "done" => yielded = all_orderings(full, reduced).out

C2_Witness ==
    /\ fn = "random_orderings" /\ pc = "done"
    /\ ~drawn /\ N >= 2 /\ R >= N /\ Len(yielded) = N

\* The row y is a rearrangement of the indexes of the reduced layout (of the
\* full layout too when the two cover the same indexes) that keeps, in the
\* positions of every reduced group, exactly the indexes of that group
KeepsReducedGroups(y, f, red) ==
    /\ Len(y) = SumSeq(MapLen(red))
    /\ Cardinality(Range(y)) = Len(y)
    /\ Range(y) = Range(Concat(red))
    /\ Range(Concat(red)) = Range(Concat(f)) => Range(y) = Range(Concat(f))
    /\ SplitOf(y, MapLen(red)) = [i \in 1..Len(red) |-> Range(red[i])]

\* C20: every row random_ordering can return, and every row random_orderings
\* yields in its exhaustive or its sampling branch, is a permutation of the
\* layout's indexes in which the positions of each reduced group hold exactly
\* that group's indexes; and no step changes the layouts passed in.
C20_OrderingsKeepReducedGroups ==
    /\ [](fn = "random_orderings" =>
            /\ \A k \in 1..Len(yielded) :
                  reduced # None /\ KeepsReducedGroups(yielded[k], full, reduced)
            /\ (pc = "sampling" /\ reduced # None) =>
                  \A arr \in random_ordering(full, reduced) :
                      KeepsReducedGroups(arr, full, reduced))
    /\ [][full' = full /\ reduced' = reduced]_vars

\* The sampling branch has yielded a shuffled row of two reduced groups
C20_Witness ==
    /\ fn = "random_orderings" /\ pc = "done" /\ drawn
    /\ reduced # None /\ Len(reduced) = 2 /\ Len(yielded) = 1
    /\ yielded[1] # Concat(reduced)

\* The exhaustive branch has yielded the rows of two reduced groups
C20_WitnessExhaustive ==
    /\ fn = "random_orderings" /\ pc = "done" /\ ~drawn
    /\ reduced # None /\ Len(reduced) = 2 /\ Len(yielded) = 2

-----------------------------------------------------------------------------
(* Properties of the layout helpers and of Ftest's construction *)

\* The layout puts every index of [0, n) in exactly one place
Partitions(lay, n) ==
    /\ Len(Concat(lay)) = n
    /\ Range(Concat(lay)) = 0..(n - 1)

\* C7: for a layout that partitions [0, N), apply_layout returns one group per
\* layout group, group i holding the data at the indices of layout group i in
\* that group's order, and the groups together cover each of the N sample
\* positions exactly once.
C7_ApplyLayoutCoversOnce ==
    (fn = "apply_layout" /\ pc = "done" /\ Partitions(layout, LastAxis(data)))
    => /\ ret.exc = "none"
       /\ Len(ret.val) = Len(layout)
       /\ \A i \in 1..Len(layout) :
            /\ ret.val[i].ndim = data.ndim
            /\ Len(ret.val[i].rows) = Len(data.rows)
            /\ \A r \in 1..Len(data.rows) :
                /\ Len(ret.val[i].rows[r]) = Len(layout[i])
                /\ \A k \in 1..Len(layout[i]) :
                     ret.val[i].rows[r][k] = data.rows[r][layout[i][k] + 1]
       /\ \A r \in 1..Len(data.rows) :
            LET cat == Concat([i \in 1..Len(layout) |-> ret.val[i].rows[r]])
            IN  /\ Len(cat) = LastAxis(data)
                /\ data.rows[r] = Arange(LastAxis(data))
                    => \A p \in 0..(LastAxis(data) - 1) :
                         Cardinality({k \in 1..Len(cat) : cat[k] = p}) = 1

C7_Witness ==
    /\ fn = "apply_layout" /\ pc = "done"
    /\ data = [ndim |-> 2, rows |-> << <<2, -1, 2>>, <<0, 1, 2>> >>]
    /\ layout = << <<2, 0>>, <<1>> >>
    /\ ret = Returned(<< [ndim |-> 2, rows |-> << <<2, 2>>, <<2, 0>> >>],
                         [ndim |-> 2, rows |-> << <<-1>>, <<1>> >>] >>)

\* C8: the last axis of group_means(data, layout) has length len(layout) and
\* its leading axes are those of data; residuals(data, layout) has the shape of
\* data; every entry of group_rss(data, layout) is >= 0.
C8_ShapesAndNonNegativeRss ==
    (pc = "done" /\ ret.exc = "none") =>
        /\ fn = "group_means"
            => Shape(ret.val) = Front(Shape(data)) \o <<Len(layout)>>
        /\ fn = "residuals" => Shape(ret.val) = Shape(data)
        /\ fn = "group_rss"
            => /\ Shape(ret.val) = Front(Shape(data))
               /\ \A r \in 1..Len(ret.val.rows) :
                    \A c \in 1..Len(ret.val.rows[r]) :
                        /\ ret.val.rows[r][c][2] > 0
                        /\ ret.val.rows[r][c][1] >= 0

C8_Witness ==
    /\ fn = "group_rss" /\ pc = "done" /\ dtype = "float"
    /\ data = [ndim |-> 2, rows |-> << <<2, -1, 2>>, <<0, 1, 2>> >>]
    /\ layout = << <<0, 1>>, <<2>> >>
    /\ ret = Returned([ndim |-> 1, rows |-> << << <<9, 2>>, <<1, 2>> >> >>])

\* C9: group_means, residuals and group_rss fail, returning no result,
\* whenever the last-axis length of data differs from the number of indices in
\* layout.
C9_LengthMismatchFails ==
    (fn \in {"group_means", "residuals", "group_rss"} /\ pc = "done"
        /\ LastAxis(data) # SumSeq(MapLen(layout)))
    => ret.exc # "none"

\* C10: Ftest(layout_full, layout_reduced) raises UnsupportedLayoutException
\* if and only if some group of layout_full has fewer than 2 members; on the
\* error no evaluator is produced, otherwise the evaluator holds the layouts
\* and alphas it was given.
C10_FtestRejectsSmallGroups ==
    (fn = "Ftest" /\ pc = "done") =>
        /\ ret.exc = "UnsupportedLayoutException"
            <=> \E g \in 1..Len(full) : Len(full[g]) < 2
        /\ ret.exc \in {"none", "UnsupportedLayoutException"}
        /\ ret.exc = "none"
            => ret.val = [layout_full |-> full, layout_reduced |-> reduced,
                          alphas |-> alphas]

C10_Witness ==
    /\ fn = "Ftest" /\ pc = "done"
    /\ full = << <<0, 1>>, <<2>> >>
    /\ ret.exc = "UnsupportedLayoutException"

C10_WitnessAccepted ==
    /\ fn = "Ftest" /\ pc = "done"
    /\ full = << <<0, 1, 2>> >>
    /\ ret.exc = "none"

-----------------------------------------------------------------------------
(* Properties of the statistic evaluators *)

\* The residual sum of squares of one row of data under a layout, from its
\* definition: the squared distances of the samples to their group's mean
TrueRss(row, lay) ==
    RSum([g \in 1..Len(lay) |->
            LET vals == Take(row, lay[g])
                mean == RDiv(RInt(SumSeq(vals)), RInt(Len(vals)))
            IN  RSum([k \in 1..Len(vals) |->
                        LET d == RSub(RInt(vals[k]), mean) IN RMul(d, d)])])

\* The F ratio of one row of data
FRatio(row, layout_full, layout_reduced) ==
    LET p_full == Len(layout_full)
        p_reduced == Len(layout_reduced)
        n == SumSeq(MapLen(layout_reduced))
        rss_full == TrueRss(row, layout_full)
        rss_reduced == TrueRss(row, layout_reduced)
    IN  RDiv(RDiv(RSub(rss_reduced, rss_full), RInt(p_full - p_reduced)),
             RDiv(rss_full, RInt(n - p_full)))

\* round(q, 1) in tenths: round(10 * q), halves away from zero
RoundTenths(q) == Sign(q[1]) * ((20 * Abs(q[1]) + q[2]) \div (2 * q[2]))

\* An Ftest built without alphas has returned from a call
FtestReturned ==
    /\ fn = "Ftest" /\ pc \in {"called", "again"}
    /\ ret.exc = "none" /\ ~alphas.given

\* C11: Ftest(full, reduced)(data) is, for every row of data, the F ratio
\* ((RSS_reduced - RSS_full) / (p_full - p_reduced)) / (RSS_full / (n - p_full)),
\* and on the rows a, b, c of the docstring it is 3.6, 1.0 and 2.5 to one
\* decimal.
C11_FtestIsFRatio ==
    FtestReturned =>
        /\ \A r \in 1..Len(data.rows) :
              ret.val.rows[1][r] = FRatio(data.rows[r], full, reduced)
        /\ (data = DocData /\ full = DocFull /\ reduced = DocReduced) =>
              [r \in 1..3 |-> RoundTenths(ret.val.rows[1][r])] = <<36, 10, 25>>

\* C12: OneSampleDifferenceTTest(layout_reduced) fails with a layout
\* exception (InvalidLayoutException or UnsupportedLayoutException) when some
\* group of layout_reduced has not exactly 2 members, and succeeds when every
\* group has exactly 2.
C12_UnpairedRaisesLayoutException ==
    (fn = "OneSampleDifferenceTTest" /\ pc \in {"built", "raised"}) =>
        IF \E g \in 1..Len(reduced) : Len(reduced[g]) # 2
           THEN ret.exc \in {"InvalidLayoutException", "UnsupportedLayoutException"}
           ELSE ret.exc = "none"

\* C13: MeansRatio(condition_layout, block_layout) raises
\* UnsupportedLayoutException exactly when condition_layout has not 2 groups,
\* whatever the number of blocks, and otherwise returns the evaluator.
C13_TwoConditionsRequired ==
    (fn = "MeansRatio" /\ pc \in {"built", "raised"}) =>
        /\ (ret.exc = "UnsupportedLayoutException") <=> (Len(condition_layout) # 2)
        /\ (Len(condition_layout) = 2) => (ret.exc = "none" /\ self = ret.val)

\* MeansRatio has raised for one condition and two blocks
C13_Witness ==
    /\ fn = "MeansRatio" /\ pc = "raised"
    /\ Len(condition_layout) = 1 /\ Len(block_layout) = 2

\* a geometric mean that is a number and at least 1
AtLeastOne(g) ==
    /\ ~IsNan(g.base)
    /\ IF g.base[2] = 0 THEN g.base[1] > 0 ELSE g.base[1] >= g.base[2]

\* C14: with symmetric=True every value MeansRatio returns is >= 1, for every
\* data tensor, and the evaluator built with the two condition groups swapped
\* returns the same statistic.
C14_SymmetricRatioAtLeastOne ==
    (fn = "MeansRatio" /\ symmetric /\ pc \in {"called", "again"}
        /\ ret.exc = "none") =>
        /\ \A i \in 1..Len(ret.val.rows) : \A j \in 1..Len(ret.val.rows[i]) :
              AtLeastOne(ret.val.rows[i][j])
        /\ ret = MeansRatio_call(
                    MeansRatio_init(Reverse(condition_layout), block_layout,
                                    alphas, symmetric).val, data)

-----------------------------------------------------------------------------
(* Properties of cumulative_hist and bootstrap *)

\* cumulative_hist has returned for 1-d values
HistReturned ==
    fn = "cumulative_hist" /\ pc = "done" /\ ret.exc = "none" /\ values.ndim = 1

LastEdge(e) == e[Len(e)]

\* C17 as claimed: for 1-d values and non-decreasing edges, entry i of
\* cumulative_hist(values, bins) is the number of values >= edge[i], whatever
\* the last edge is.
C17_CountsValuesAtLeastEdge ==
    HistReturned =>
        LET v == values.rows[1]
            e == bins.rows[1]
        IN  \A i \in 1..(Len(e) - 1) :
               ret.val.rows[1][i] =
                   RInt(Cardinality({k \in 1..Len(v) : XLeq(e[i], v[k])}))

\* C17, amended: entry i of cumulative_hist(values, bins) is the number of
\* values v with edge[i] <= v <= last edge; it is the number of values
\* >= edge[i] when no value exceeds the last edge.
C17_CountsValuesUpToLastEdge ==
    HistReturned =>
        LET v == values.rows[1]
            e == bins.rows[1]
        IN  /\ Len(ret.val.rows[1]) = Len(e) - 1
            /\ \A i \in 1..(Len(e) - 1) :
                  /\ ret.val.rows[1][i] =
                        RInt(Cardinality({k \in 1..Len(v) :
                               XLeq(e[i], v[k]) /\ XLeq(v[k], LastEdge(e))}))
                  /\ (\A k \in 1..Len(v) : XLeq(v[k], LastEdge(e))) =>
                        ret.val.rows[1][i] =
                          RInt(Cardinality({k \in 1..Len(v) : XLeq(e[i], v[k])}))

\* two bins with a finite last edge, a value above it, and both entries
\* counting some value
C17_Witness ==
    /\ HistReturned
    /\ Len(bins.rows[1]) = 3 /\ LastEdge(bins.rows[1]) = <<2, 1>>
    /\ \E k \in 1..Len(values.rows[1]) : values.rows[1][k] = <<3, 1>>
    /\ ret.val.rows[1][1][1] > ret.val.rows[1][2][1]
    /\ ret.val.rows[1][2][1] > 0

\* The statistic of the sample built from index row r
DrawStat(r) ==
    ApplyStat(stat_fn, build_sample(data, resid, indexes[r]).val).val

\* bootstrap has returned one row of statistics for each index row, in the
\* order of the index rows
OneRowPerDraw ==
    /\ Shape(ret.val) = <<Len(indexes), Len(data.rows)>>
    /\ \A r \in 1..Len(indexes) : ret.val.rows[r] = DrawStat(r).rows[1]

\* C15: bootstrap with bins=None returns an array of shape (number of index
\* rows, num_features) whose row r is stat_fn of the sample built from index
\* row r, and the number of index rows is R when the indexes are generated.
C15_OneRowPerDraw ==
    /\ []((fn = "bootstrap" /\ pc = "done" /\ bins = NoBins) => OneRowPerDraw)
    /\ [][(fn = "bootstrap" /\ pc = "start" /\ indexes = None
             /\ pc' = "reduce") => Len(indexes') = R]_vars

\* the sum of two tensors of one shape, element by element
TensorAdd(a, b) ==
    Strict(LAMBDA p :
             [ndim |-> p[1].ndim,
              rows |-> [i \in 1..Len(p[1].rows) |->
                          [c \in 1..Len(p[1].rows[i]) |->
                             RAdd(p[1].rows[i][c], p[2].rows[i][c])]]],
           <<a, b>>)

\* The sum of the cumulative histograms of the first k draws
RECURSIVE HistSum(_)
HistSum(k) ==
    IF k = 0
       THEN [ndim |-> 1, rows |-> <<[b \in 1..(Len(bins.rows[1]) - 1) |-> <<0, 1>>]>>]
       ELSE TensorAdd(HistSum(k - 1), cumulative_hist(DrawStat(k), bins).val)

\* C16: with bins, the accumulator starts at zeros, holds after k draws the
\* sum of cumulative_hist(stat_fn(sample), bins) over these k draws, each
\* counted once, and bootstrap returns the sum over all the draws divided,
\* entry by entry, by the number of index rows, which is R when the indexes
\* are generated.
C16_AverageOfCumulativeHists ==
    /\ []((fn = "bootstrap" /\ bins # NoBins /\ pc \in {"reduce", "done"}) =>
            \A sum \in {HistSum(consumed)} :
                /\ accum = sum
                /\ pc = "done" =>
                      /\ consumed = Len(indexes)
                      /\ Shape(ret.val) = Shape(sum)
                      /\ \A b \in 1..Len(sum.rows[1]) :
                            ret.val.rows[1][b] =
                                RDiv(sum.rows[1][b], RInt(Len(indexes))))
    /\ [][(fn = "bootstrap" /\ bins # NoBins /\ pc = "start"
             /\ indexes = None /\ pc' = "reduce") => Len(indexes') = R]_vars

\* two generated draws with different histograms have been averaged
C16_Witness ==
    /\ fn = "bootstrap" /\ pc = "done" /\ bins # NoBins
    /\ R = 2 /\ Len(indexes) = 2
    /\ cumulative_hist(DrawStat(1), bins) # cumulative_hist(DrawStat(2), bins)
    /\ \E b \in 1..Len(ret.val.rows[1]) : ret.val.rows[1][b][2] = 2

-----------------------------------------------------------------------------
(* Properties of bootstrap's index generation and sample building *)

\* The layout the indexes are drawn from: sample_layout, or one group with
\* the whole range of the last axis of data
DrawLayout ==
    IF sample_layout # None THEN sample_layout
    ELSE <<Arange(LastAxis(data))>>

\* m has r rows, and in every row the positions of each group of lay hold
\* indexes of that group only
DrawnWithinGroups(m, lay, r) ==
    /\ Len(m) = r
    /\ \A k \in 1..Len(m) :
          /\ Len(m[k]) = SumSeq(MapLen(lay))
          /\ \A j \in 1..Len(lay) :
                \A p \in (StartOf(MapLen(lay), j) + 1)..StartOf(MapLen(lay), j + 1) :
                    m[k][p] \in Range(lay[j])

\* C21: when indexes is not supplied (and no group to draw from is empty),
\* bootstrap draws an R x N index matrix in which the positions of every
\* group of sample_layout hold indexes of that group only; without a
\* sample_layout the group is the full range of the last axis of data, for
\* data of any number of dimensions.
C21_GeneratedIndexesStayInGroups ==
    [][(fn = "bootstrap" /\ pc = "start" /\ indexes = None
          /\ (R = 0 \/ \A j \in 1..Len(DrawLayout) : DrawLayout[j] # <<>>))
       => (pc' = "reduce" /\ DrawnWithinGroups(indexes', DrawLayout, R))]_vars

\* The index row can be applied: its indexes lie on the last axis of data,
\* and with residuals there is one index per sample
SampleDefined(idxs) ==
    /\ \A c \in 1..Len(idxs) : idxs[c] < LastAxis(data)
    /\ resid # NoResiduals => Len(idxs) = LastAxis(data)

\* data[..., idxs], or data + residuals[..., idxs], entry by entry
ExpectedSample(idxs) ==
    [ndim |-> data.ndim,
     rows |-> [i \in 1..Len(data.rows) |->
                 [c \in 1..Len(idxs) |->
                    IF resid = NoResiduals
                       THEN data.rows[i][idxs[c] + 1]
                       ELSE data.rows[i][c] + resid.rows[i][idxs[c] + 1]]]]

\* The observations that data and the residuals were computed from
Original ==
    [ndim |-> data.ndim,
     rows |-> [i \in 1..Len(data.rows) |->
                 [c \in 1..LastAxis(data) |-> data.rows[i][c] + resid.rows[i][c]]]]

\* C22: the sample of a draw is data[..., idxs] without residuals and
\* data + residuals[..., idxs] with them, so the identity index row gives
\* back the original observations; no step changes data or residuals.
C22_SampleFromDataAndResiduals ==
    /\ [][(fn = "bootstrap" /\ pc = "reduce" /\ consumed < Len(indexes)
             /\ SampleDefined(indexes[consumed + 1]))
          => /\ sample' = ExpectedSample(indexes[consumed + 1])
             /\ (resid # NoResiduals
                   /\ indexes[consumed + 1] = Arange(LastAxis(data)))
                => sample' = Original]_vars
    /\ [][data' = data /\ resid' = resid]_vars

\* A draw with the identity index row has rebuilt the original observations
C22_Witness ==
    /\ fn = "bootstrap" /\ pc \in {"reduce", "done"} /\ consumed >= 1
    /\ resid # NoResiduals
    /\ indexes[consumed] = Arange(LastAxis(data))
    /\ sample = Original /\ sample # data

-----------------------------------------------------------------------------
(* Properties of bins_uniform and bins_custom *)

NonDecreasing(e) == \A i \in 1..(Len(e) - 1) : XLeq(e[i], e[i + 1])

\* C23: for num_bins >= 2 every row of edges bins_uniform returns has
\* num_bins + 1 edges, the first -inf, the last +inf, none smaller than the
\* one before it, also when the largest statistic is zero or negative.
C23_UniformEdgesNonDecreasing ==
    (fn = "bins_uniform" /\ pc = "done" /\ num_bins >= 2) =>
        /\ ret.exc = "none"
        /\ Len(ret.val.rows) = Len(stats.rows)
        /\ \A i \in 1..Len(ret.val.rows) :
              LET e == ret.val.rows[i]
              IN  /\ Len(e) = num_bins + 1
                  /\ e[1] = <<-1, 0>>
                  /\ e[Len(e)] = <<1, 0>>
                  /\ NonDecreasing(e)

\* C24: for num_bins statistic values per feature bins_custom returns, for
\* every feature, num_bins + 1 edges: the values in ascending order and a last
\* edge of +inf; for 1-d stats and for stats with an axis of features.
C24_CustomEdgesAreSortedValues ==
    (fn = "bins_custom" /\ pc = "done" /\ LastAxis(stats) = num_bins) =>
        /\ ret.exc = "none"
        /\ Shape(ret.val) = Front(Shape(stats)) \o <<num_bins + 1>>
        /\ \A i \in 1..Len(stats.rows) :
              /\ Front(ret.val.rows[i]) \in Shuffles(stats.rows[i])
              /\ NonDecreasing(ret.val.rows[i])
              /\ ret.val.rows[i][num_bins + 1] = <<1, 0>>

-----------------------------------------------------------------------------
(* Properties of the F-test with tuning parameters *)

\* The numerator and the denominator of the F ratio of one row of data
FNumer(row, layout_full, layout_reduced) ==
    RDiv(RSub(TrueRss(row, layout_reduced), TrueRss(row, layout_full)),
         RInt(Len(layout_full) - Len(layout_reduced)))

FDenom(row, layout_full, layout_reduced) ==
    RDiv(TrueRss(row, layout_full),
         RInt(SumSeq(MapLen(layout_reduced)) - Len(layout_full)))

\* Entry k of the leading axis of the result, for row r of data
AlphaEntry(k, r) ==
    IF data.ndim = 1 THEN ret.val.rows[1][k] ELSE ret.val.rows[k][r]

\* C25: an Ftest built with alphas returns a result with a new leading axis
\* of length len(alphas); its entry k is numer / (denom + alphas[k]), and
\* the entry of an alpha of 0 is what the same Ftest built without alphas
\* returns.
C25_AlphasOffsetDenominator ==
    (fn = "Ftest" /\ pc \in {"called", "again"} /\ ret.exc = "none"
        /\ alphas.given) =>
        /\ Shape(ret.val) = <<Len(alphas.vals)>> \o Front(Shape(data))
        /\ \A k \in 1..Len(alphas.vals) : \A r \in 1..Len(data.rows) :
              /\ AlphaEntry(k, r) =
                    RDiv(FNumer(data.rows[r], full, reduced),
                         RAdd(FDenom(data.rows[r], full, reduced),
                              RInt(alphas.vals[k])))
              /\ alphas.vals[k] = 0 =>
                    AlphaEntry(k, r) =
                        Ftest_call([self EXCEPT !.alphas = NoAlphas],
                                   data, dtype).val.rows[1][r]

-----------------------------------------------------------------------------
(* Properties of the iterators' failures *)

\* C26: an iterator of all_orderings_within_group, all_orderings or
\* random_orderings that ends with an exception has yielded nothing before.
C26_NoOrderingBeforeError ==
    /\ (fn \in {"all_orderings_within_group", "all_orderings"} /\ pc = "done"
            /\ ret.exc # "none") => ret.out = <<>>
    /\ (fn = "random_orderings" /\ pc = "raised") =>
            /\ ret.exc # "none"
            /\ yielded = <<>>

\* all_orderings has raised for a pair whose first reduced group is matched
\* by the first full group
C26_Witness ==
    /\ fn = "all_orderings" /\ pc = "done" /\ ret.exc = "Exception"
    /\ Len(reduced) >= 2 /\ Len(full) >= 2
    /\ Len(reduced[1]) = Len(full[1])

\* random_orderings has raised in its exhaustive branch, num_orderings having
\* returned
C26_WitnessExhaustive ==
    /\ fn = "random_orderings" /\ pc = "raised" /\ N >= 1 /\ R >= N

\* C27: in the sampling branch (R < N) of random_orderings on a reduced
\* layout that forms a valid pair with the full one, under fair draws,
\* exactly R orderings are eventually yielded and the generator then stops,
\* and the loop ends only when the seen-set holds R tuples.
C27_SamplingYieldsRThenStops ==
    /\ (pc = "sampling" /\ reduced # None /\ ValidPair(full, reduced))
          ~> (pc = "done" /\ Len(yielded) = R)
    /\ [][(pc = "sampling" /\ pc' = "done")
             => Cardinality(orderings) = R /\ Len(yielded) = R]_vars

\* Two orderings were drawn out of six and the sampling loop has ended
C27_Witness ==
    /\ pc = "done" /\ drawn
    /\ reduced # None /\ ValidPair(full, reduced)
    /\ R = 2 /\ N = 6
    /\ Len(yielded) = 2 /\ Cardinality(orderings) = 2

\* C28: in the sampling branch of random_orderings (here on valid pairs), any
\* two yielded orderings give a different set of indices to at least one
\* group of the full layout.
C28_SampledOrderingsDistinguishable ==
    (drawn /\ ValidPair(full, reduced)) =>
        \A i, j \in 1..Len(yielded) :
            i < j => SplitOf(yielded[i], MapLen(full))
                        # SplitOf(yielded[j], MapLen(full))

\* C29: all_orderings(full, reduced) terminates for every layout pair: the
\* group-matching loop always stops, so a call either returns its generator's
\* rows or raises, and never keeps advancing the run end.
C29_AllOrderingsTerminates ==
    (fn = "all_orderings" /\ pc = "call") =>
        all_orderings(full, reduced).exc # "diverges"

\* a row of numbers that never increases from one entry to the next
NonIncreasing(row) == \A i \in 1..(Len(row) - 1) : XLeq(row[i + 1], row[i])

\* the edges of a row run from -inf to inf
Unbounded(e) == e[1] = <<-1, 0>> /\ LastEdge(e) = <<1, 0>>

\* bootstrap has returned its averaged histogram
AveragedReturned ==
    fn = "bootstrap" /\ pc = "done" /\ ret.exc = "none" /\ bins # NoBins

\* every entry of the row lies between 0 and n
Within(row, n) ==
    \A b \in 1..Len(row) : XLeq(RInt(0), row[b]) /\ XLeq(row[b], RInt(n))

\* C30 as claimed: for every 1-d array of values and non-decreasing edges,
\* cumulative_hist(values, bins) never increases along the bins and, with
\* edges from -inf to inf, its entry 0 is the number of values; and every
\* entry of bootstrap's averaged histogram lies between 0 and the number of
\* statistic values.
C30_HistogramBounded ==
    /\ HistReturned =>
          /\ NonIncreasing(ret.val.rows[1])
          /\ Unbounded(bins.rows[1]) =>
                ret.val.rows[1][1] = RInt(Len(values.rows[1]))
    /\ AveragedReturned => Within(ret.val.rows[1], Len(data.rows))

\* C30, amended: cumulative_hist(values, bins) never increases along the
\* bins; with edges from -inf to inf its entry 0 is the number of values
\* that are not nan; and when at least one sample was drawn every entry of
\* bootstrap's averaged histogram lies between 0 and the number of statistic
\* values.
C30_HistogramBoundedOverSamples ==
    /\ HistReturned =>
          /\ NonIncreasing(ret.val.rows[1])
          /\ Unbounded(bins.rows[1]) =>
                ret.val.rows[1][1] =
                    RInt(Cardinality({k \in 1..Len(values.rows[1]) :
                                        ~IsNan(values.rows[1][k])}))
    /\ (AveragedReturned /\ Len(indexes) >= 1) =>
          Within(ret.val.rows[1], Len(data.rows))

\* a histogram over edges from -inf to inf that counts all three values in
\* its first entry and fewer in its second
C30_Witness ==
    /\ HistReturned
    /\ Unbounded(bins.rows[1]) /\ Len(bins.rows[1]) = 3
    /\ Len(values.rows[1]) = 3
    /\ ret.val.rows[1][1] = RInt(3)
    /\ XLt(RInt(0), ret.val.rows[1][2]) /\ XLt(ret.val.rows[1][2], RInt(3))

\* an averaged histogram of two draws over edges from -inf to inf whose
\* first entry is the number of statistic values
C30_WitnessAveraged ==
    /\ AveragedReturned /\ Len(indexes) = 2
    /\ Unbounded(bins.rows[1])
    /\ ret.val.rows[1][1] = RInt(Len(data.rows))
    /\ XLt(ret.val.rows[1][2], ret.val.rows[1][1])

====
